---- MODULE Spec2Model ----
(***************************************************************************)
(* geohash-kit: polygon-to-geohash coverage (src/src/coverage.ts) over the *)
(* geohash grid of src/src/core.ts.                                        *)
(*                                                                         *)
(* Representation.                                                         *)
(*  - A geohash is a sequence of BASE32 digit indices 0..31.  BASE32 is    *)
(*    '0123456789bcdefghjkmnpqrstuvwxyz', whose characters are in          *)
(*    ascending code-unit order, so the order of the indices is the order  *)
(*    Array.prototype.sort() uses on the strings.                          *)
(*  - Coordinates are integers: longitude -180..180 is mapped onto         *)
(*    0..World and latitude -90..90 onto 0..World (one affine map per      *)
(*    axis).  Every bisection of bounds() is exact on this grid, as it is  *)
(*    on the dyadic doubles the code computes.  The predicates only use    *)
(*    signs of cross products and one comparison with a quotient, both     *)
(*    invariant under the map; the quotient comparison is evaluated by     *)
(*    cross-multiplication, which agrees with the double computation for   *)
(*    the vertex grid used here (differences are >= 1/World).              *)
(*  - mergeThreshold is a rational <<num, den>>.                           *)
(***************************************************************************)
EXTENDS Integers, Sequences, FiniteSets, TLC

\* Deepest precision explored (the code clamps precisions to 1..9).
MaxPrec == 3

LonBits(p) == (5 * p + 1) \div 2
LatBits(p) == (5 * p) \div 2

\* Width of the coordinate grid: fine enough for every cell of length MaxPrec
\* and for vertices given in 64ths of the world.
World == 2 ^ (LonBits(MaxPrec) + 1)
Unit == World \div 64

Min(a, b) == IF a < b THEN a ELSE b
Max(a, b) == IF a > b THEN a ELSE b
Abs(a) == IF a < 0 THEN -a ELSE a

(***************************************************************************)
(* core.ts: bounds, children                                               *)
(***************************************************************************)
BASE32 == 0 .. 31

\* (bits >> bit) & 1
BitOf(bits, bit) == (bits \div (2 ^ bit)) % 2

\* One bisection step of bounds(): st = [b, isLon].
Bisect(st, one) ==
  LET b == st.b IN
  IF st.isLon
  THEN LET mid == (b.minLon + b.maxLon) \div 2 IN
       [b |-> IF one = 1 THEN [b EXCEPT !.minLon = mid] ELSE [b EXCEPT !.maxLon = mid],
        isLon |-> FALSE]
  ELSE LET mid == (b.minLat + b.maxLat) \div 2 IN
       [b |-> IF one = 1 THEN [b EXCEPT !.minLat = mid] ELSE [b EXCEPT !.maxLat = mid],
        isLon |-> TRUE]

\* The five bits of one character, most significant first.
BisectChar(st, bits) ==
  Bisect(Bisect(Bisect(Bisect(Bisect(st, BitOf(bits, 4)), BitOf(bits, 3)),
                       BitOf(bits, 2)), BitOf(bits, 1)), BitOf(bits, 0))

RECURSIVE BoundsFrom(_, _, _)
BoundsFrom(hash, i, st) ==
  IF i > Len(hash) THEN st.b
  ELSE BoundsFrom(hash, i + 1, BisectChar(st, hash[i]))

bounds(hash) ==
  BoundsFrom(hash, 1,
             [b |-> [minLat |-> 0, maxLat |-> World, minLon |-> 0, maxLon |-> World],
              isLon |-> TRUE])

\* children(hash): the 32 children in BASE32 order.
children(hash) == [i \in 1 .. 32 |-> Append(hash, i - 1)]

\* h.slice(0, len)
Slice(h, len) == SubSeq(h, 1, len)
Parent(h) == Slice(h, Len(h) - 1)

IsStrictPrefix(a, b) == Len(a) < Len(b) /\ Slice(b, Len(a)) = a

(***************************************************************************)
(* core.ts: encode and neighbour.  The coordinates handed to encode are in *)
(* quarters of a grid unit: latitude and longitude run from 0 (-90, -180)  *)
(* to 4 * World (90, 180).  A direction is the sequence of its letters.    *)
(***************************************************************************)
RECURSIVE EncodeFrom(_, _, _, _)
EncodeFrom(lat, lon, precision, st) ==
  IF Len(st.hash) >= precision THEN st.hash
  ELSE LET mid == IF st.isLon THEN (st.lonMin + st.lonMax) \div 2
                  ELSE (st.latMin + st.latMax) \div 2
           upper == IF st.isLon THEN lon >= mid ELSE lat >= mid
           ch == IF upper THEN st.ch + 2 ^ (4 - st.bit) ELSE st.ch
           full == st.bit + 1 = 5
       IN EncodeFrom(lat, lon, precision,
            [latMin |-> IF ~st.isLon /\ upper THEN mid ELSE st.latMin,
             latMax |-> IF ~st.isLon /\ ~upper THEN mid ELSE st.latMax,
             lonMin |-> IF st.isLon /\ upper THEN mid ELSE st.lonMin,
             lonMax |-> IF st.isLon /\ ~upper THEN mid ELSE st.lonMax,
             hash |-> IF full THEN Append(st.hash, ch) ELSE st.hash,
             bit |-> IF full THEN 0 ELSE st.bit + 1,
             ch |-> IF full THEN 0 ELSE ch,
             isLon |-> ~st.isLon])

encode(lat, lon, precision) ==
  EncodeFrom(lat, lon, precision,
             [latMin |-> 0, latMax |-> 4 * World, lonMin |-> 0, lonMax |-> 4 * World,
              hash |-> << >>, bit |-> 0, ch |-> 0, isLon |-> TRUE])

Direction ==
  { <<"n">>, <<"n", "e">>, <<"e">>, <<"s", "e">>, <<"s">>, <<"s", "w">>, <<"w">>, <<"n", "w">> }

\* direction.includes(letter)
Includes(direction, letter) == \E i \in 1 .. Len(direction) : direction[i] = letter

\* WrapLon without the wrap.
WrapLonNone(newLon) == newLon

\* if (newLon > 180) newLon -= 360; if (newLon < -180) newLon += 360
WrapLon(newLon) ==
  LET east == IF newLon > 4 * World THEN newLon - 4 * World ELSE newLon
  IN IF east < 0 THEN east + 4 * World ELSE east

\* Math.max(-89.99999, Math.min(89.99999, newLat)).  89.99999 lies between
\* the centre of the northernmost row and the pole at every precision up to
\* 9 (half a cell is at least 0.0000214 degrees); here it is a quarter unit
\* below the pole, and the centre of the northernmost row is at least two
\* units below it.
ClampLat(newLat) == Max(1, Min(4 * World - 1, newLat))

neighbour(hash, direction) ==
  LET b == bounds(hash)
      latHeight == 4 * (b.maxLat - b.minLat)
      lonWidth == 4 * (b.maxLon - b.minLon)
      centreLat == 2 * (b.minLat + b.maxLat)
      centreLon == 2 * (b.minLon + b.maxLon)
      dLat == IF Includes(direction, "s") THEN -latHeight
              ELSE IF Includes(direction, "n") THEN latHeight ELSE 0
      dLon == IF Includes(direction, "w") THEN -lonWidth
              ELSE IF Includes(direction, "e") THEN lonWidth ELSE 0
  IN encode(ClampLat(centreLat + dLat), WrapLon(centreLon + dLon), Len(hash))

(***************************************************************************)
(* coverage.ts: geometry predicates.  A point is <<x, y>> = [lon, lat].    *)
(***************************************************************************)
\* px - xi < num / den, for den # 0
LessThanQuotient(a, num, den) ==
  IF den > 0 THEN a * den < num ELSE a * den > num

Prev(i, n) == IF i = 1 THEN n ELSE i - 1

pointInPolygon(point, polygon) ==
  LET px == point[1]
      py == point[2]
      n == Len(polygon)
      Crosses(i) ==
        LET xi == polygon[i][1]
            yi == polygon[i][2]
            xj == polygon[Prev(i, n)][1]
            yj == polygon[Prev(i, n)][2]
        IN /\ (yi > py) # (yj > py)
           /\ LessThanQuotient(px - xi, (xj - xi) * (py - yi), yj - yi)
  IN Cardinality({i \in 1 .. n : Crosses(i)}) % 2 = 1

cross(a, b, c) == (b[1] - a[1]) * (c[2] - a[2]) - (b[2] - a[2]) * (c[1] - a[1])

onSegment(a, b, p) ==
  /\ Min(a[1], b[1]) <= p[1] /\ p[1] <= Max(a[1], b[1])
  /\ Min(a[2], b[2]) <= p[2] /\ p[2] <= Max(a[2], b[2])

segmentsIntersect(a1, a2, b1, b2) ==
  LET d1 == cross(b1, b2, a1)
      d2 == cross(b1, b2, a2)
      d3 == cross(a1, a2, b1)
      d4 == cross(a1, a2, b2)
  IN \/ /\ (d1 > 0 /\ d2 < 0) \/ (d1 < 0 /\ d2 > 0)
        /\ (d3 > 0 /\ d4 < 0) \/ (d3 < 0 /\ d4 > 0)
     \/ d1 = 0 /\ onSegment(b1, b2, a1)
     \/ d2 = 0 /\ onSegment(b1, b2, a2)
     \/ d3 = 0 /\ onSegment(a1, a2, b1)
     \/ d4 = 0 /\ onSegment(a1, a2, b2)

Corners(b) ==
  << <<b.minLon, b.minLat>>, <<b.maxLon, b.minLat>>,
     <<b.maxLon, b.maxLat>>, <<b.minLon, b.maxLat>> >>

\* Some edge of the rectangle meets some edge of the ring.
EdgesIntersect(b, polygon) ==
  LET c == Corners(b)
      n == Len(polygon)
  IN \E i \in 1 .. n : \E k \in 1 .. 4 :
       segmentsIntersect(c[k], c[(k % 4) + 1], polygon[Prev(i, n)], polygon[i])

boundsFullyInsidePolygon(b, polygon) ==
  /\ \A k \in 1 .. 4 : pointInPolygon(Corners(b)[k], polygon)
  /\ ~EdgesIntersect(b, polygon)

boundsOverlapsPolygon(b, polygon) ==
  \/ \E k \in 1 .. 4 : pointInPolygon(Corners(b)[k], polygon)
  \/ \E i \in 1 .. Len(polygon) :
       /\ polygon[i][1] >= b.minLon /\ polygon[i][1] <= b.maxLon
       /\ polygon[i][2] >= b.minLat /\ polygon[i][2] <= b.maxLat
  \/ EdgesIntersect(b, polygon)

(***************************************************************************)
(* coverage.ts: compaction                                                 *)
(***************************************************************************)
\* new Set(hashes) / Array.from(set): the distinct elements of an array.
SetOf(hashes) == {hashes[i] : i \in 1 .. Len(hashes)}

\* The order of Array.prototype.sort() on geohash strings.
LexLess(a, b) ==
  \/ IsStrictPrefix(a, b)
  \/ \E i \in 1 .. Min(Len(a), Len(b)) :
       a[i] < b[i] /\ \A j \in 1 .. (i - 1) : a[j] = b[j]

\* Array.from(set).sort(), as a walk of the prefix tree in digit order: a cell
\* comes before its descendants, and siblings come in BASE32 order.
RECURSIVE SortUnder(_, _)
RECURSIVE SortKids(_, _, _)
SortUnder(prefix, set) ==
  IF set = {} THEN << >>
  ELSE (IF prefix \in set THEN <<prefix>> ELSE << >>)
         \o SortKids(prefix, set \ {prefix}, 0)

SortKids(prefix, set, c) ==
  IF c > 31 \/ set = {} THEN << >>
  ELSE LET sub == {h \in set : h[Len(prefix) + 1] = c}
       IN SortUnder(Append(prefix, c), sub) \o SortKids(prefix, set \ sub, c + 1)

Sort(set) == SortUnder(<< >>, set)

\* The array is in the order sort() leaves it in.
IsSorted(hashes) ==
  \A i \in 1 .. (Len(hashes) - 1) : LexLess(hashes[i], hashes[i + 1])

MaxLength(set) == IF set = {} THEN 0 ELSE CHOOSE n \in {Len(h) : h \in set} :
                                            \A h \in set : Len(h) <= n

\* The iteration of the loop over p without set.add(parent): the children of a
\* merged parent are deleted and nothing takes their place.
MergeLevelDropping(set, p, minSiblings) ==
  LET level == {h \in set : Len(h) = p}
      merged == {parent \in {Parent(h) : h \in level} :
                   Cardinality({h \in level : Parent(h) = parent}) >= minSiblings}
  IN set \ UNION {{Append(parent, c) : c \in BASE32} : parent \in merged}

\* One iteration of the loop over p: count the cells of length p per parent and
\* replace the children of every parent with at least minSiblings of them.
\* (The counts are taken before any replacement of this level, as in the code.)
MergeLevel(set, p, minSiblings) ==
  LET level == {h \in set : Len(h) = p}
      merged == {parent \in {Parent(h) : h \in level} :
                   Cardinality({h \in level : Parent(h) = parent}) >= minSiblings}
  IN (set \ UNION {{Append(parent, c) : c \in BASE32} : parent \in merged}) \cup merged

\* The loop over p with p >= minPrecision in the place of p > minPrecision:
\* cells of length minPrecision are merged too.
RECURSIVE MergeFromInclusive(_, _, _, _)
MergeFromInclusive(set, p, minPrecision, minSiblings) ==
  IF p >= minPrecision
  THEN MergeFromInclusive(MergeLevel(set, p, minSiblings), p - 1, minPrecision, minSiblings)
  ELSE set

RECURSIVE MergeFrom(_, _, _, _)
MergeFrom(set, p, minPrecision, minSiblings) ==
  IF p > minPrecision
  THEN MergeFrom(MergeLevel(set, p, minSiblings), p - 1, minPrecision, minSiblings)
  ELSE set

\* mergeCompleteSiblings(hashes, minPrecision, minSiblings), given the contents
\* of new Set(hashes).  It returns Array.from(set); every caller sorts that
\* array, so the model returns the set and the callers apply Sort.
mergeCompleteSiblings(set, minPrecision, minSiblings) ==
  MergeFrom(set, MaxLength(set), minPrecision, minSiblings)

\* Step 1 of deduplicateGeohashes: drop a cell when an ancestor is in the set.
AncestorFilter(set) ==
  {h \in set : ~ \E len \in 1 .. (Len(h) - 1) : Slice(h, len) \in set}

\* deduplicateGeohashes without its first step, the ancestor filter.
deduplicateGeohashesUnfiltered(hashes, lossy) ==
  Sort(mergeCompleteSiblings(SetOf(hashes), 1, IF lossy THEN 30 ELSE 32))

\* deduplicateGeohashes with 29 in the place of 30.
deduplicateGeohashesLossy29(hashes, lossy) ==
  Sort(mergeCompleteSiblings(AncestorFilter(SetOf(hashes)), 1, IF lossy THEN 29 ELSE 32))

\* Step 1 removes the cells that have an ancestor in the set; step 2 merges
\* sibling groups bottom-up; the result is sorted.
deduplicateGeohashes(hashes, lossy) ==
  LET filtered == AncestorFilter(SetOf(hashes))
      minSiblings == IF lossy THEN 30 ELSE 32
  IN Sort(mergeCompleteSiblings(filtered, 1, minSiblings))

\* No entry is a strict prefix of another entry.
AncestorFree(hashes) ==
  \A i, j \in 1 .. Len(hashes) : ~IsStrictPrefix(hashes[i], hashes[j])

\* No two positions hold the same cell.
DuplicateFree(hashes) ==
  \A i, j \in 1 .. Len(hashes) : i # j => hashes[i] # hashes[j]

(***************************************************************************)
(* coverage.ts: normalisation and option parsing                           *)
(*                                                                         *)
(* An input is [type, coordinates]: type "Ring" is a bare coordinate array *)
(* (Array.isArray(input)), "Polygon" has coordinates = <<outer, hole...>>, *)
(* "MultiPolygon" has coordinates = a sequence of such ring lists.         *)
(***************************************************************************)
stripClosingVertex(ring) ==
  IF Len(ring) > 1 /\ ring[1][1] = ring[Len(ring)][1] /\ ring[1][2] = ring[Len(ring)][2]
  THEN SubSeq(ring, 1, Len(ring) - 1)
  ELSE ring

\* The holes of a Polygon: rings 2.. with the closing vertex stripped, keeping
\* those with at least 3 vertices.
RECURSIVE HolesFrom(_, _)
HolesFrom(coordinates, i) ==
  IF i > Len(coordinates) THEN << >>
  ELSE LET holeRing == stripClosingVertex(coordinates[i])
       IN (IF Len(holeRing) >= 3 THEN <<holeRing>> ELSE << >>)
            \o HolesFrom(coordinates, i + 1)

NoError == [name |-> "", message |-> "", count |-> 0]
ErrorOf(name, message) == [name |-> name, message |-> message, count |-> 0]

\* normalisePolygonInput: [error, outer, holes]; error.name = "" when it returns.
normalisePolygonInput(input) ==
  IF input.type = "Ring"
  THEN [error |-> NoError, outer |-> input.coordinates, holes |-> << >>]
  ELSE IF input.type = "Polygon"
  THEN IF Len(input.coordinates) = 0 \/ Len(input.coordinates[1]) = 0
       THEN [error |-> ErrorOf("Error", "GeoJSON Polygon has no outer ring"),
             outer |-> << >>, holes |-> << >>]
       ELSE [error |-> NoError,
             outer |-> stripClosingVertex(input.coordinates[1]),
             holes |-> HolesFrom(input.coordinates, 2)]
  ELSE [error |-> ErrorOf("Error", "Unsupported input type"),
        outer |-> << >>, holes |-> << >>]

\* Some edge of the ring, the closing edge included, spans more than 180 degrees
\* of longitude.
CrossesAntimeridian(ring) ==
  \E i \in 1 .. Len(ring) :
    Abs(ring[i][1] - ring[(i % Len(ring)) + 1][1]) > World \div 2

\* The guards applied to one outer ring.
RingError(outer) ==
  IF Len(outer) < 3
  THEN ErrorOf("Error", "Polygon must have at least 3 vertices")
  ELSE IF CrossesAntimeridian(outer)
  THEN ErrorOf("Error", "Polygons crossing the antimeridian are not supported")
  ELSE NoError

\* Math.max(lo, Math.min(hi, x))
Clamp(lo, hi, x) == Max(lo, Min(hi, x))

(***************************************************************************)
(* A JavaScript number given as an option is <<num, den>>: the rational    *)
(* num/den when den > 0, and a non-finite value when den = 0 (Infinity for *)
(* num > 0, -Infinity for num < 0, NaN for num = 0).                       *)
(***************************************************************************)
\* Number.isFinite
IsFinite(x) == x[2] # 0
\* Math.round(x) = floor(x + 1/2)
Round(x) == (2 * x[1] + x[2]) \div (2 * x[2])
\* The largest integer n with n <= x: `length <= x` is `length <= Floor(x)`.
Floor(x) == x[1] \div x[2]

\* ParseOptions with maxPrecision only clamped to 9, not raised to minPrecision.
ParseOptionsNotRaised(options) ==
  LET rawMin == options.minPrecision
      rawMax == options.maxPrecision
      maxCells == options.maxCells
      rawThreshold == options.mergeThreshold
      error == IF ~IsFinite(rawMin) THEN ErrorOf("RangeError", "Invalid minPrecision")
               ELSE IF ~IsFinite(rawMax) THEN ErrorOf("RangeError", "Invalid maxPrecision")
               ELSE IF ~IsFinite(maxCells) \/ maxCells[1] < maxCells[2]
               THEN ErrorOf("RangeError", "Invalid maxCells")
               ELSE IF ~IsFinite(rawThreshold)
               THEN ErrorOf("RangeError", "Invalid mergeThreshold")
               ELSE NoError
  IN IF error.name # ""
     THEN [error |-> error, minPrecision |-> 0, maxPrecision |-> 0, maxCells |-> 0,
           bailout |-> 0, threshold |-> <<0, 1>>]
     ELSE [error |-> NoError,
           minPrecision |-> Clamp(1, 9, Round(rawMin)),
           maxPrecision |-> Min(9, Round(rawMax)),
           maxCells |-> Floor(maxCells),
           bailout |-> Floor(<<maxCells[1] * 4, maxCells[2]>>),
           threshold |-> IF rawThreshold[1] < 0 THEN <<0, 1>>
                         ELSE IF rawThreshold[1] > rawThreshold[2] THEN <<1, 1>>
                         ELSE rawThreshold]

\* Option parsing: the four finiteness tests in order, then round and clamp.
\* maxCells is used as given; every test on it compares an array length with
\* it (or with 4 * maxCells), so its floor (and the floor of 4 * maxCells)
\* decide the same.  After an error the other fields are not computed.
ParseOptions(options) ==
  LET rawMin == options.minPrecision
      rawMax == options.maxPrecision
      maxCells == options.maxCells
      rawThreshold == options.mergeThreshold
      error == IF ~IsFinite(rawMin) THEN ErrorOf("RangeError", "Invalid minPrecision")
               ELSE IF ~IsFinite(rawMax) THEN ErrorOf("RangeError", "Invalid maxPrecision")
               ELSE IF ~IsFinite(maxCells) \/ maxCells[1] < maxCells[2]
               THEN ErrorOf("RangeError", "Invalid maxCells")
               ELSE IF ~IsFinite(rawThreshold)
               THEN ErrorOf("RangeError", "Invalid mergeThreshold")
               ELSE NoError
      minPrecision == Clamp(1, 9, Round(rawMin))
  IN IF error.name # ""
     THEN [error |-> error, minPrecision |-> 0, maxPrecision |-> 0, maxCells |-> 0,
           bailout |-> 0, threshold |-> <<0, 1>>]
     ELSE [error |-> NoError,
           minPrecision |-> minPrecision,
           maxPrecision |-> Max(minPrecision, Min(9, Round(rawMax))),
           maxCells |-> Floor(maxCells),
           bailout |-> Floor(<<maxCells[1] * 4, maxCells[2]>>),
           threshold |-> IF rawThreshold[1] < 0 THEN <<0, 1>>
                         ELSE IF rawThreshold[1] > rawThreshold[2] THEN <<1, 1>>
                         ELSE rawThreshold]

(***************************************************************************)
(* coverage.ts: computeGeohashes                                           *)
(*                                                                         *)
(* A pass is described by ctx = [polygon, holes, minPrecision,             *)
(* maxPrecision, coverageThreshold, bailout]; bailout is << >> when the    *)
(* argument is omitted (limit = Infinity) and <<n>> otherwise.             *)
(***************************************************************************)
RECURSIVE MinOf(_, _, _)
MinOf(ring, k, i) ==
  IF i > Len(ring) THEN ring[1][k]
  ELSE Min(ring[i][k], MinOf(ring, k, i + 1))

RECURSIVE MaxOf(_, _, _)
MaxOf(ring, k, i) ==
  IF i > Len(ring) THEN ring[1][k]
  ELSE Max(ring[i][k], MaxOf(ring, k, i + 1))

polyAABB(polygon) ==
  [polyMinLon |-> MinOf(polygon, 1, 1), polyMaxLon |-> MaxOf(polygon, 1, 1),
   polyMinLat |-> MinOf(polygon, 2, 1), polyMaxLat |-> MaxOf(polygon, 2, 1)]

\* The fast rejection: the cell's rectangle misses the polygon's bounding box.
OutsideAABB(b, aabb) ==
  \/ b.maxLon < aabb.polyMinLon \/ b.minLon > aabb.polyMaxLon
  \/ b.maxLat < aabb.polyMinLat \/ b.minLat > aabb.polyMaxLat

\* isFullyInside without the test of the holes.
isFullyInsideOuter(b, polygon, holes) == boundsFullyInsidePolygon(b, polygon)

isFullyInside(b, polygon, holes) ==
  /\ boundsFullyInsidePolygon(b, polygon)
  /\ \A k \in 1 .. Len(holes) : ~boundsOverlapsPolygon(b, holes[k])

doesOverlap(b, polygon, holes) ==
  /\ boundsOverlapsPolygon(b, polygon)
  /\ \A k \in 1 .. Len(holes) : ~boundsFullyInsidePolygon(b, holes[k])

\* interiorMinPrecision as if coverageThreshold were 0.
interiorMinPrecisionCoarsest(minPrecision, maxPrecision, coverageThreshold) == minPrecision

\* Math.ceil(minPrecision + (maxPrecision - minPrecision) * coverageThreshold)
interiorMinPrecision(minPrecision, maxPrecision, coverageThreshold) ==
  LET num == coverageThreshold[1]
      den == coverageThreshold[2]
  IN (minPrecision * den + (maxPrecision - minPrecision) * num + den - 1) \div den

\* The sibling count of threshold 0 at every threshold.
minSiblingsLoosest(coverageThreshold) == 24

\* The sibling count with the threshold's effect inverted: round(32 - t * 8).
minSiblingsInverted(coverageThreshold) ==
  LET num == coverageThreshold[1]
      den == coverageThreshold[2]
  IN (2 * (32 * den - 8 * num) + den) \div (2 * den)

\* Math.round(24 + coverageThreshold * 8), and Math.round(x) = floor(x + 1/2)
minSiblingsOf(coverageThreshold) ==
  LET num == coverageThreshold[1]
      den == coverageThreshold[2]
  IN (2 * (24 * den + 8 * num) + den) \div (2 * den)

\* The seed: the precision-1 cells filtered by bounding box, then by overlap.
SeedQueue(ctx) ==
  LET aabb == polyAABB(ctx.polygon)
      Keep(hash) == /\ ~OutsideAABB(bounds(hash), aabb)
                    /\ doesOverlap(bounds(hash), ctx.polygon, ctx.holes)
  IN SelectSeq(children(<< >>), Keep)

\* A work list served first in, first out: queue.shift().
Shifted(queue) == [hash |-> queue[1], rest |-> SubSeq(queue, 2, Len(queue))]

\* queue.pop(): the cell taken and the stack left.
Popped(queue) ==
  [hash |-> queue[Len(queue)], rest |-> SubSeq(queue, 1, Len(queue) - 1)]

\* The body of the while loop for the cell taken from the work list, up to the
\* bailout test: commit the cell, drop it or push children.  taken is
\* [hash, rest]; returns the new [queue, result].
Iteration(taken, result, ctx) ==
  LET hash == taken.hash
      rest == taken.rest
      b == bounds(hash)
      imp == interiorMinPrecision(ctx.minPrecision, ctx.maxPrecision, ctx.coverageThreshold)
      aabb == polyAABB(ctx.polygon)
      kids == children(hash)
  IN IF isFullyInside(b, ctx.polygon, ctx.holes)
     THEN IF Len(hash) >= imp
          THEN [queue |-> rest, result |-> Append(result, hash)]
          ELSE [queue |-> rest \o kids, result |-> result]
     ELSE IF Len(hash) >= ctx.maxPrecision
     THEN IF doesOverlap(b, ctx.polygon, ctx.holes)
          THEN [queue |-> rest, result |-> Append(result, hash)]
          ELSE [queue |-> rest, result |-> result]
     ELSE LET class == [i \in 1 .. 32 |->
                LET cb == bounds(kids[i]) IN
                IF OutsideAABB(cb, aabb) THEN "skip"
                ELSE IF isFullyInside(cb, ctx.polygon, ctx.holes)
                THEN (IF Len(kids[i]) >= imp THEN "commit" ELSE "push")
                ELSE IF doesOverlap(cb, ctx.polygon, ctx.holes) THEN "push"
                ELSE "skip"]
              Indexed == [i \in 1 .. 32 |-> <<i, kids[i]>>]
              Committed(e) == class[e[1]] = "commit"
              Pushed(e) == class[e[1]] = "push"
              Cells(es) == [i \in 1 .. Len(es) |-> es[i][2]]
          IN [queue |-> rest \o Cells(SelectSeq(Indexed, Pushed)),
              result |-> result \o Cells(SelectSeq(Indexed, Committed))]

\* One iteration of the while loop, up to the bailout test: pop a cell, then
\* commit it, drop it or push children.  Returns the new [queue, result].
LoopBody(queue, result, ctx) == Iteration(Popped(queue), result, ctx)

\* The same iteration on a work list served first in, first out.
LoopBodyFifo(queue, result, ctx) == Iteration(Shifted(queue), result, ctx)

\* The bailout test with a limit 32 cells higher.
OverLimitLate(result, bailout) == Len(bailout) = 1 /\ Len(result) > bailout[1] + 32

\* result.length > limit
OverLimit(result, bailout) == Len(bailout) = 1 /\ Len(result) > bailout[1]

\* The committed cells returned as they are, in the order of commitment.
CompactedInOrder(result, ctx) == result

\* The value a finished loop returns: the sorted merge of the committed cells.
Compacted(result, ctx) ==
  Sort(mergeCompleteSiblings(SetOf(result), ctx.minPrecision,
                             minSiblingsOf(ctx.coverageThreshold)))

\* The while loop run to its end: [null, cells]; null = TRUE is "return null".
RECURSIVE Drain(_, _, _)
Drain(queue, result, ctx) ==
  IF Len(queue) = 0 THEN [null |-> FALSE, cells |-> Compacted(result, ctx)]
  ELSE LET next == LoopBody(queue, result, ctx)
       IN IF OverLimit(next.result, ctx.bailout)
          THEN [null |-> TRUE, cells |-> << >>]
          ELSE Drain(next.queue, next.result, ctx)

PassCtx(polygon, holes, minPrecision, maxPrecision, coverageThreshold, bailout) ==
  [polygon |-> polygon, holes |-> holes, minPrecision |-> minPrecision,
   maxPrecision |-> maxPrecision, coverageThreshold |-> coverageThreshold,
   bailout |-> bailout]

computeGeohashes(polygon, holes, minPrecision, maxPrecision, coverageThreshold, bailout) ==
  LET ctx == PassCtx(polygon, holes, minPrecision, maxPrecision, coverageThreshold, bailout)
  IN Drain(SeedQueue(ctx), << >>, ctx)

(***************************************************************************)
(* polygonToGeohashes as a state machine.                                  *)
(*                                                                         *)
(*   pc = "call"     the call has been made, nothing has run yet           *)
(*   pc = "attempt"  about to call computeGeohashes for part `part` at     *)
(*                   precision step `mp` (fallback = TRUE: the last-resort *)
(*                   pass after the step-down loop)                        *)
(*   pc = "compute"  inside the while loop of computeGeohashes             *)
(*   pc = "done"     the call has returned or thrown (see outcome)         *)
(***************************************************************************)
VARIABLES
  input,      \* the PolygonInput of the call
  options,    \* the CoverageOptions of the call
  pc,
  opts,       \* the parsed options (ParseOptions)
  parts,      \* the normalised polygons: one, or one per MultiPolygon child
  mp,         \* the loop variable of the step-down loop
  fallback,   \* TRUE once the step-down loop is exhausted
  part,       \* index into parts of the polygon being computed
  allHashes,  \* MultiPolygon: the cells of the parts computed so far at this step
  queue,      \* computeGeohashes: the work stack
  result,     \* computeGeohashes: the committed cells
  bailed,     \* computeGeohashes: result.length > limit was seen (return null)
  passes,     \* number of computeGeohashes calls started
  attempts,   \* the attempts ended so far, in order: [mp, fallback, bailed, size]
  outcome,    \* [kind, value, error, step]: what the call returned or threw
  prev        \* the caller's record of its previous call on this input

callVars == <<input, options, pc, opts, parts, mp, fallback, part, allHashes,
              queue, result, bailed, passes, attempts, outcome, prev>>

\* deduplicateGeohashes called by a client, and called again on its own output.
VARIABLES
  shape,      \* how the input array was built (see DedupCells)
  hashes,     \* the input array
  lossy,      \* options.lossy
  dpc,        \* "input", "once" (deduped is set), "twice" (again is set),
              \* "merged" (deduped is the output of mergeCompleteSiblings)
  deduped,    \* deduplicateGeohashes(hashes, options)
  again       \* deduplicateGeohashes(deduped, options)

dedupVars == <<shape, hashes, lossy, dpc, deduped, again>>

\* pointInPolygon called by a client.
VARIABLES
  pipPolygon, \* the ring
  pipPoint,   \* the point
  pipPc,      \* "idle", "input", "done" (pipInside is set)
  pipInside   \* pointInPolygon(pipPoint, pipPolygon)

pipVars == <<pipPolygon, pipPoint, pipPc, pipInside>>

\* geohashesToConvexHull called by a client.
VARIABLES
  hullHashes, \* the input array
  hullPc,     \* "idle", "input", "done" (hullOutcome is set)
  hullOutcome \* what the call returned or threw

hullVars == <<hullHashes, hullPc, hullOutcome>>

\* neighbour called by a client, and called again on its result with the
\* opposite direction.
VARIABLES
  nbHash,      \* the cell
  nbDirection, \* the direction
  nbPc,        \* "idle", "input", "moved" (nbMoved is set), "returned"
  nbMoved,     \* neighbour(nbHash, nbDirection)
  nbReturned   \* neighbour(nbMoved, the opposite of nbDirection)

nbVars == <<nbHash, nbDirection, nbPc, nbMoved, nbReturned>>

\* One pass of computeGeohashes run twice on the same arguments: with the work
\* list as the stack of the code, and as the queue of a breadth-first search.
VARIABLES
  ordCtx,     \* the arguments of the pass (PassCtx)
  ordPc,      \* "idle", "start", "run", "done" (the returned values are set)
  ordLifo,    \* [queue, result, bailed, returned] of the pass using queue.pop()
  ordFifo     \* [queue, result, bailed, returned] of the pass using queue.shift()

orderVars == <<ordCtx, ordPc, ordLifo, ordFifo>>

libVars == <<pipVars, hullVars, nbVars, orderVars>>

vars == <<callVars, dedupVars, libVars>>

Pending == [kind |-> "pending", value |-> << >>, error |-> NoError, step |-> 0]
\* step: the mp of the attempt that produced the value; 0 for the fallback pass
\* and for results produced without any pass.
Returned(value, step) == [kind |-> "return", value |-> value, error |-> NoError, step |-> step]
Thrown(error) == [kind |-> "throw", value |-> << >>, error |-> error, step |-> 0]

IsMulti == input.type = "MultiPolygon"

\* The normalised children of a MultiPolygon, in order.
MultiChildren(coordinates) ==
  [i \in 1 .. Len(coordinates) |->
     normalisePolygonInput([type |-> "Polygon", coordinates |-> coordinates[i]])]

\* The first error met by a loop over a sequence of error records.
RECURSIVE FirstError(_, _)
FirstError(errors, i) ==
  IF i > Len(errors) THEN NoError
  ELSE IF errors[i].name # "" THEN errors[i]
  ELSE FirstError(errors, i + 1)

\* The prologue with the guards applied to the first child only.
PrologueFirstChild(in, options_) ==
  LET o == ParseOptions(options_)
      ch == IF in.type = "MultiPolygon"
            THEN MultiChildren(in.coordinates)
            ELSE <<normalisePolygonInput(in)>>
      empty == in.type = "MultiPolygon" /\ Len(in.coordinates) = 0
  IN [error |-> IF o.error.name # "" THEN o.error
                ELSE IF empty THEN NoError
                ELSE IF ch[1].error.name # "" THEN ch[1].error
                ELSE RingError(ch[1].outer),
      opts |-> o,
      parts |-> [i \in 1 .. Len(ch) |-> [outer |-> ch[i].outer, holes |-> ch[i].holes]],
      empty |-> empty]

\* Everything polygonToGeohashes does before its first computeGeohashes call:
\* [error, opts, parts, empty]; empty = TRUE is the early `return []`.
Prologue(in, options_) ==
  LET o == ParseOptions(options_)
      ch == IF in.type = "MultiPolygon"
            THEN MultiChildren(in.coordinates)
            ELSE <<normalisePolygonInput(in)>>
      normErr == FirstError([i \in 1 .. Len(ch) |-> ch[i].error], 1)
      ringErr == FirstError([i \in 1 .. Len(ch) |-> RingError(ch[i].outer)], 1)
      empty == in.type = "MultiPolygon" /\ Len(in.coordinates) = 0
  IN [error |-> IF o.error.name # "" THEN o.error
                ELSE IF empty THEN NoError
                ELSE IF normErr.name # "" THEN normErr
                ELSE ringErr,
      opts |-> o,
      parts |-> [i \in 1 .. Len(ch) |-> [outer |-> ch[i].outer, holes |-> ch[i].holes]],
      empty |-> empty]

\* The arguments of the computeGeohashes call made at pc = "attempt".
CurrentCtx ==
  IF fallback
  THEN PassCtx(parts[part].outer, parts[part].holes,
               opts.minPrecision, opts.minPrecision, <<0, 1>>, << >>)
  ELSE PassCtx(parts[part].outer, parts[part].holes,
               opts.minPrecision, mp, opts.threshold, <<opts.bailout>>)

\* polygonToGeohashes is entered: options, normalisation, guards.
Call ==
  /\ pc = "call"
  /\ LET pr == Prologue(input, options) IN
       /\ opts' = pr.opts
       /\ parts' = pr.parts
       /\ mp' = pr.opts.maxPrecision
       /\ IF pr.error.name # ""
          THEN pc' = "done" /\ outcome' = Thrown(pr.error)
          ELSE IF pr.empty
          THEN pc' = "done" /\ outcome' = Returned(<< >>, 0)
          ELSE pc' = "attempt" /\ outcome' = outcome
  /\ UNCHANGED <<input, options, fallback, part, allHashes, queue, result, bailed, passes,
                 attempts, prev>>
  /\ UNCHANGED <<dedupVars, libVars>>

\* computeGeohashes is entered: the bounding box and the seed of the stack.
StartPass ==
  /\ pc = "attempt"
  /\ queue' = SeedQueue(CurrentCtx)
  /\ result' = << >>
  /\ bailed' = FALSE
  /\ passes' = passes + 1
  /\ pc' = "compute"
  /\ UNCHANGED <<input, options, opts, parts, mp, fallback, part, allHashes, attempts,
                 outcome, prev>>
  /\ UNCHANGED <<dedupVars, libVars>>

\* One iteration of the while loop, with its bailout test.
PopCell ==
  /\ pc = "compute"
  /\ ~bailed
  /\ Len(queue) > 0
  /\ LET next == LoopBody(queue, result, CurrentCtx) IN
       /\ queue' = next.queue
       /\ result' = next.result
       /\ bailed' = OverLimit(next.result, CurrentCtx.bailout)
  /\ UNCHANGED <<input, options, pc, opts, parts, mp, fallback, part, allHashes,
                 passes, attempts, outcome, prev>>
  /\ UNCHANGED <<dedupVars, libVars>>

\* The step-down that does not step: the same precision is tried again.
NextAttemptAgain ==
  /\ pc' = "attempt"
  /\ part' = 1
  /\ allHashes' = << >>
  /\ outcome' = outcome
  /\ IF mp > opts.minPrecision
     THEN mp' = mp /\ fallback' = FALSE
     ELSE mp' = mp /\ fallback' = TRUE

\* The step-down going straight to minPrecision.
NextAttemptCoarsest ==
  /\ pc' = "attempt"
  /\ part' = 1
  /\ allHashes' = << >>
  /\ outcome' = outcome
  /\ IF mp > opts.minPrecision
     THEN mp' = opts.minPrecision /\ fallback' = FALSE
     ELSE mp' = mp /\ fallback' = TRUE

\* The step after an attempt that did not produce the returned value: the next
\* lower precision, or the fallback pass once mp = minPrecision has been tried.
NextAttempt ==
  /\ pc' = "attempt"
  /\ part' = 1
  /\ allHashes' = << >>
  /\ outcome' = outcome
  /\ IF mp > opts.minPrecision
     THEN mp' = mp - 1 /\ fallback' = FALSE
     ELSE mp' = mp /\ fallback' = TRUE

Finish(o) ==
  /\ pc' = "done"
  /\ outcome' = o
  /\ UNCHANGED <<mp, fallback, part, allHashes>>

\* The budget test with the bailout limit in the place of maxCells.
FitsBudgetLoose(cells, maxCells) == Len(cells) <= maxCells * 4

\* The budget test with < in the place of <=.
FitsBudgetStrict(cells, maxCells) == Len(cells) < maxCells

\* The budget test: `result.length <= maxCells`.
FitsBudget(cells, maxCells) == Len(cells) <= maxCells

\* One entry of attempts: size is the length of the attempt's compacted
\* (MultiPolygon: merged) result, 0 when a pass returned null.
Attempt(cells) == [mp |-> mp, fallback |-> fallback, bailed |-> bailed, size |-> Len(cells)]

RangeError(prefix, count) ==
  [name |-> "RangeError", message |-> prefix, count |-> count]

\* computeGeohashes returns to the single-polygon path.
EndPassSingle ==
  /\ pc = "compute"
  /\ ~IsMulti
  /\ bailed \/ Len(queue) = 0
  /\ LET cells == IF bailed THEN << >> ELSE Compacted(result, CurrentCtx) IN
       /\ attempts' = Append(attempts, Attempt(cells))
       /\ IF ~fallback
          THEN IF ~bailed /\ FitsBudget(cells, opts.maxCells)
               THEN Finish(Returned(cells, mp))
               ELSE NextAttempt
          ELSE IF FitsBudget(cells, opts.maxCells)
               THEN Finish(Returned(cells, 0))
               ELSE Finish(Thrown(RangeError("Polygon requires at least", Len(cells))))
  /\ UNCHANGED <<input, options, opts, parts, queue, result, bailed, passes, prev>>
  /\ UNCHANGED <<dedupVars, libVars>>

\* computeGeohashes returns to the MultiPolygon path.
EndPassMulti ==
  /\ pc = "compute"
  /\ IsMulti
  /\ bailed \/ Len(queue) = 0
  /\ LET cells == IF bailed THEN << >> ELSE Compacted(result, CurrentCtx)
         all == allHashes \o cells
     IN IF ~fallback /\ bailed
        THEN NextAttempt /\ attempts' = Append(attempts, Attempt(<< >>))
        ELSE IF part < Len(parts)
        THEN /\ part' = part + 1
             /\ allHashes' = all
             /\ pc' = "attempt"
             /\ UNCHANGED <<mp, fallback, outcome, attempts>>
        ELSE LET merged == deduplicateGeohashes(all, FALSE) IN
             /\ attempts' = Append(attempts, Attempt(merged))
             /\ IF FitsBudget(merged, opts.maxCells)
                THEN Finish(Returned(merged, IF fallback THEN 0 ELSE mp))
                ELSE IF ~fallback THEN NextAttempt
                ELSE Finish(Thrown(RangeError("MultiPolygon requires at least", Len(merged))))
  /\ UNCHANGED <<input, options, opts, parts, queue, result, bailed, passes, prev>>
  /\ UNCHANGED <<dedupVars, libVars>>

(***************************************************************************)
(* The calls explored.  Vertices are given in 64ths of the world, so that  *)
(* the rings keep their place on the grid when MaxPrec changes: a          *)
(* precision-1 cell is 8 x 16 of these units, a precision-2 cell 2 x 2.    *)
(***************************************************************************)
Pt(x, y) == <<x * Unit, y * Unit>>
Rect(x0, y0, x1, y1) == <<Pt(x0, y0), Pt(x1, y0), Pt(x1, y1), Pt(x0, y1)>>
\* A GeoJSON linear ring repeats its first vertex at the end.
Closed(ring) == Append(ring, ring[1])

Ring(coordinates) == [type |-> "Ring", coordinates |-> coordinates]
Polygon(coordinates) == [type |-> "Polygon", coordinates |-> coordinates]
MultiPolygon(coordinates) == [type |-> "MultiPolygon", coordinates |-> coordinates]

TwoVertices == <<Pt(33, 33), Pt(35, 35)>>
\* An edge from 45 W... to the far east: more than half the world wide.
AcrossAntimeridian == <<Pt(2, 33), Pt(62, 33), Pt(62, 35)>>

SmallInputs ==
  { Ring(Rect(33, 33, 35, 35)),
    Ring(<<Pt(33, 33), Pt(36, 33), Pt(33, 35)>>),
    Polygon(<<Closed(Rect(31, 31, 36, 36)), Closed(Rect(33, 33, 34, 34)),
              Closed(TwoVertices)>>),
    \* two parts that overlap
    MultiPolygon(<< <<Closed(Rect(33, 33, 35, 35))>>, <<Closed(Rect(34, 34, 36, 36))>> >>) }

InvalidInputs ==
  { Ring(TwoVertices),
    Ring(AcrossAntimeridian),
    Polygon(<<Closed(TwoVertices)>>),
    Polygon(<<Closed(AcrossAntimeridian)>>),
    Polygon(<< >>),
    MultiPolygon(<< >>),
    MultiPolygon(<< <<Closed(Rect(33, 33, 35, 35))>>, <<Closed(TwoVertices)>> >>),
    MultiPolygon(<< <<Closed(TwoVertices)>>, <<Closed(Rect(33, 33, 35, 35))>> >>),
    MultiPolygon(<< <<Closed(Rect(33, 33, 35, 35))>>, <<Closed(AcrossAntimeridian)>> >>),
    MultiPolygon(<< <<Closed(AcrossAntimeridian)>>, <<Closed(Rect(33, 33, 35, 35))>> >>),
    MultiPolygon(<< <<Closed(Rect(33, 33, 35, 35))>>, << >> >>) }

\* Larger inputs: most of one precision-1 cell; a strip across two precision-1
\* cells; a part inside one precision-2 cell of the other part; the first ring
\* again with a small part inside it.
LargeRing == Rect(32, 33, 38, 47)
LargeInputs ==
  { Ring(LargeRing),
    Ring(Rect(31, 33, 41, 35)),
    MultiPolygon(<< <<Closed(Rect(31, 31, 35, 35))>>, <<Closed(Rect(33, 33, 34, 34))>> >>),
    MultiPolygon(<< <<Closed(LargeRing)>>, <<Closed(Rect(33, 35, 34, 36))>> >>) }

\* Inputs at the edge of what the guards look at: bare coordinate arrays that
\* repeat their first vertex at the end (two distinct vertices; a rectangle), a
\* Polygon ring closed twice, a Polygon whose hole has an edge more than half
\* the world wide, and rings reaching north of latitude 90.
EdgeInputs ==
  { Ring(Closed(TwoVertices)),
    Ring(Closed(Rect(33, 33, 35, 35))),
    Polygon(<<Closed(Closed(Rect(33, 33, 35, 35)))>>),
    Polygon(<<Closed(Rect(33, 33, 35, 35)), Closed(AcrossAntimeridian)>>),
    Ring(Rect(33, 62, 35, 66)),
    Polygon(<<Closed(Rect(31, 31, 36, 36)), Closed(Rect(33, 62, 35, 66))>>),
    MultiPolygon(<< <<Closed(Rect(33, 33, 35, 35))>>, <<Closed(Rect(33, 62, 35, 66))>> >>) }

Thresholds == {<<0, 1>>, <<1, 2>>, <<1, 1>>}

\* minPrecision <= maxPrecision, and one pair the parser has to repair.
PrecisionPairs ==
  {pr \in (1 .. MaxPrec) \X (1 .. MaxPrec) : pr[1] <= pr[2] \/ pr = <<2, 1>>}

OptionsOf(pairs, maxCellsSet, thresholds) ==
  {[minPrecision |-> <<pr[1], 1>>, maxPrecision |-> <<pr[2], 1>>, maxCells |-> <<mc, 1>>,
    mergeThreshold |-> th] :
     pr \in pairs, mc \in maxCellsSet, th \in thresholds}

SmallOptions == OptionsOf(PrecisionPairs, {0, 1, 8, 64}, Thresholds)

LargeOptions == OptionsOf({<<1, MaxPrec>>}, {64, 150}, {<<0, 1>>, <<1, 1>>})

EdgeOptions == OptionsOf({<<1, 2>>, <<2, 2>>}, {8, 64}, {<<1, 1>>})

\* A Polygon with a hole the size of a precision-2 cell, wide enough to hold
\* precision-2 cells clear of the hole.
HoleInputs ==
  { Polygon(<<Closed(Rect(31, 31, 40, 36)), Closed(Rect(32, 32, 34, 34))>>) }

HoleOptions == OptionsOf({<<1, MaxPrec>>}, {150}, {<<0, 1>>, <<1, 1>>})

\* A part that holds all of one precision-1 cell, as the only part of a
\* MultiPolygon and as a Polygon, with minPrecision above 1.
WholeCellRing == Rect(31, 31, 41, 49)
WholeCellInputs ==
  { MultiPolygon(<< <<Closed(WholeCellRing)>> >>), Polygon(<<Closed(WholeCellRing)>>) }

WholeCellOptions == OptionsOf({<<2, 2>>}, {64}, {<<1, 1>>})

\* Options under which the large ring needs more cells at minPrecision than
\* maxCells allows, with and without a bailout of the last attempt.
ExhaustedOptions == OptionsOf({<<2, 2>>, <<1, 2>>}, {8, 16}, {<<0, 1>>, <<1, 1>>})

\* A threshold strictly between 0 and 1 over the full range of precisions.
MidOptions == OptionsOf({<<1, MaxPrec>>}, {150}, {<<1, 2>>})

\* Options that parsing has to round and clamp, with effective precisions of
\* at most 3: precisions -3, 0.5, 1.5 and 0, 2.5, thresholds -0.5, 0.5, 1.5,
\* maxCells 64 and 8.5.
ClampedOptions ==
  {[minPrecision |-> mn, maxPrecision |-> mx, maxCells |-> rest[1], mergeThreshold |-> rest[2]] :
     mn \in {<<-3, 1>>, <<1, 2>>, <<3, 2>>},
     mx \in {<<0, 1>>, <<5, 2>>},
     rest \in {<< <<64, 1>>, <<-1, 2>> >>, << <<64, 1>>, <<3, 2>> >>, << <<17, 2>>, <<1, 2>> >>}}

PlainOptions ==
  [minPrecision |-> <<1, 1>>, maxPrecision |-> <<2, 1>>, maxCells |-> <<64, 1>>,
   mergeThreshold |-> <<1, 1>>]

NaN == <<0, 0>>
Infinity == <<1, 0>>
MinusInfinity == <<-1, 0>>

\* Options the parser rejects: one option NaN, Infinity or -Infinity, or
\* maxCells below 1.
RejectedOptions ==
  {[PlainOptions EXCEPT ![f] = v] :
     f \in {"minPrecision", "maxPrecision", "maxCells", "mergeThreshold"},
     v \in {NaN, Infinity, MinusInfinity}}
  \cup {[PlainOptions EXCEPT !.maxCells = v] : v \in {<<1, 2>>, <<0, 1>>, <<-5, 1>>}}

\* Finite options whose precisions lie at and beyond the upper limit 9.
HighOptions ==
  {[minPrecision |-> mn, maxPrecision |-> mx, maxCells |-> <<64, 1>>, mergeThreshold |-> th] :
     mn \in {<<1, 1>>, <<9, 1>>, <<12, 1>>},
     mx \in {<<9, 1>>, <<19, 2>>, <<12, 1>>},
     th \in {<<1, 1>>, <<2, 1>>}}

Calls ==
  ((SmallInputs \cup InvalidInputs) \X SmallOptions)
    \cup (LargeInputs \X LargeOptions)
    \cup (EdgeInputs \X EdgeOptions)
    \cup ({Ring(LargeRing)} \X MidOptions)
    \cup (HoleInputs \X HoleOptions)
    \cup (WholeCellInputs \X WholeCellOptions)
    \cup ({Ring(LargeRing)} \X ExhaustedOptions)
    \cup ({Ring(Rect(33, 33, 35, 35))} \X ClampedOptions)
    \cup ((SmallInputs \cup {MultiPolygon(<< >>), Ring(TwoVertices)}) \X RejectedOptions)
    \* precisions beyond MaxPrec: with inputs for which no pass is started
    \cup ({MultiPolygon(<< >>), Ring(TwoVertices)} \X HighOptions)

NoPrev == [called |-> FALSE, variant |-> "", options |-> << >>, outcome |-> Pending]

InitCall(call) ==
  /\ input = call[1]
  /\ options = call[2]
  /\ pc = "call"
  /\ opts = ParseOptions(call[2])
  /\ parts = << >>
  /\ mp = 0
  /\ fallback = FALSE
  /\ part = 1
  /\ allHashes = << >>
  /\ queue = << >>
  /\ result = << >>
  /\ bailed = FALSE
  /\ passes = 0
  /\ attempts = << >>
  /\ outcome = Pending
  /\ prev = NoPrev

\* The call machine at rest, for the specifications that do not use it.
CallIdle == InitCall(<<MultiPolygon(<< >>), CHOOSE o \in LargeOptions : TRUE>>)

NoShape == [parent |-> << >>, offset |-> 0, k |-> 0, j |-> 0, u |-> 0,
            withParent |-> FALSE, dup |-> FALSE]

DedupIdle ==
  /\ shape = NoShape
  /\ hashes = << >>
  /\ lossy = FALSE
  /\ dpc = "idle"
  /\ deduped = << >>
  /\ again = << >>

PipIdle ==
  /\ pipPolygon = << >>
  /\ pipPoint = <<0, 0>>
  /\ pipPc = "idle"
  /\ pipInside = FALSE

HullIdle ==
  /\ hullHashes = << >>
  /\ hullPc = "idle"
  /\ hullOutcome = Pending

NeighbourIdle ==
  /\ nbHash = << >>
  /\ nbDirection = << >>
  /\ nbPc = "idle"
  /\ nbMoved = << >>
  /\ nbReturned = << >>

NoRun == [queue |-> << >>, result |-> << >>, bailed |-> FALSE,
          returned |-> [null |-> FALSE, cells |-> << >>]]

OrderIdle ==
  /\ ordCtx = << >>
  /\ ordPc = "idle"
  /\ ordLifo = NoRun
  /\ ordFifo = NoRun

LibIdle == PipIdle /\ HullIdle /\ NeighbourIdle /\ OrderIdle

Init == DedupIdle /\ LibIdle /\ \E call \in Calls : InitCall(call)

Next == Call \/ StartPass \/ PopCell \/ EndPassSingle \/ EndPassMulti

Spec == Init /\ [][Next]_vars

\* The call is synchronous: once entered it runs on until it returns or throws.
\* Every step is weakly fair.  The steps of the loop of computeGeohashes are
\* enabled exactly when pc = "compute", so their weak fairness is written out
\* as: infinitely often not in the loop, or infinitely often a loop step.
SpecRun ==
  /\ Init /\ [][Next]_vars
  /\ WF_vars(Call)
  /\ WF_vars(StartPass)
  /\ \/ []<>(pc # "compute")
     \/ []<><<PopCell \/ EndPassSingle \/ EndPassMulti>>_vars

(***************************************************************************)
(* A caller that calls polygonToGeohashes a second time on the same input  *)
(* with one option changed, keeping the outcome of its first call in prev: *)
(* with maxCells set to the count a RangeError reported, with a larger     *)
(* maxCells, or with mergeThreshold 1 after mergeThreshold 0.              *)
(***************************************************************************)
Recall(variant, newInput, newOptions) ==
  /\ pc = "done"
  /\ ~prev.called
  /\ prev' = [called |-> TRUE, variant |-> variant, options |-> options, outcome |-> outcome]
  /\ input' = newInput
  /\ options' = newOptions
  /\ pc' = "call"
  /\ opts' = ParseOptions(newOptions)
  /\ parts' = << >>
  /\ mp' = 0
  /\ fallback' = FALSE
  /\ part' = 1
  /\ allHashes' = << >>
  /\ queue' = << >>
  /\ result' = << >>
  /\ bailed' = FALSE
  /\ passes' = 0
  /\ attempts' = << >>
  /\ outcome' = Pending
  /\ UNCHANGED <<dedupVars, libVars>>

CallAgain(variant, newOptions) == Recall(variant, input, newOptions)

\* The RangeError of the fallback (not the one that rejects options.maxCells).
IsSizingError(o) ==
  /\ o.kind = "throw"
  /\ o.error.name = "RangeError"
  /\ o.error.message \in {"Polygon requires at least", "MultiPolygon requires at least"}

RetryWithCount ==
  /\ IsSizingError(outcome)
  /\ CallAgain("count", [options EXCEPT !.maxCells = <<outcome.error.count, 1>>])

Budgets == {1, 8, 64, 150}

RaiseBudget ==
  /\ outcome.kind = "return"
  /\ \E b \in Budgets :
       /\ b > Floor(options.maxCells)
       /\ \A c \in Budgets : c > Floor(options.maxCells) => b <= c
       /\ CallAgain("budget", [options EXCEPT !.maxCells = <<b, 1>>])

TightenThreshold ==
  /\ outcome.kind = "return"
  /\ options.mergeThreshold = <<0, 1>>
  /\ CallAgain("threshold", [options EXCEPT !.mergeThreshold = <<1, 1>>])

SessionInputs ==
  { Ring(Rect(32, 32, 34, 33)),
    Ring(<<Pt(33, 33), Pt(36, 33), Pt(33, 35)>>),
    Ring(LargeRing),
    MultiPolygon(<< <<Closed(Rect(31, 31, 35, 35))>>, <<Closed(Rect(33, 33, 34, 34))>> >>) }

SessionOptions ==
  OptionsOf({<<1, MaxPrec>>, <<2, MaxPrec>>}, {1, 8, 64, 150},
            {<<0, 1>>, <<1, 1>>})

InitSession == DedupIdle /\ LibIdle /\ \E call \in SessionInputs \X SessionOptions : InitCall(call)

NextSession == Next \/ RetryWithCount \/ RaiseBudget \/ TightenThreshold

SpecSession == InitSession /\ [][NextSession]_vars

(***************************************************************************)
(* A caller that passes a MultiPolygon of one part, and then the Polygon   *)
(* with the coordinates of that part, with the same options.               *)
(***************************************************************************)
CallAsPolygon ==
  /\ input.type = "MultiPolygon"
  /\ Len(input.coordinates) = 1
  /\ Recall("polygon", Polygon(input.coordinates[1]), options)

\* One-part MultiPolygons: a small square, a square with a hole, a ring of
\* two vertices, the large ring, and a ring around a whole precision-1 cell.
TwinInputs ==
  { MultiPolygon(<< <<Closed(Rect(33, 33, 35, 35))>> >>),
    MultiPolygon(<< <<Closed(Rect(31, 31, 36, 36)), Closed(Rect(33, 33, 34, 34))>> >>),
    MultiPolygon(<< <<Closed(TwoVertices)>> >>),
    MultiPolygon(<< <<Closed(LargeRing)>> >>),
    MultiPolygon(<< <<Closed(WholeCellRing)>> >>) }

TwinOptions ==
  OptionsOf({<<1, 2>>, <<2, 2>>, <<1, MaxPrec>>}, {8, 150}, {<<0, 1>>, <<1, 1>>})

InitTwin == DedupIdle /\ LibIdle /\ \E call \in TwinInputs \X TwinOptions : InitCall(call)

NextTwin == Next \/ CallAsPolygon

SpecTwin == InitTwin /\ [][NextTwin]_vars

(***************************************************************************)
(* deduplicateGeohashes on cell sets of mixed precision.  An input is      *)
(* built from: k children of `parent` (starting at digit `offset`), j      *)
(* children of the one child of `parent` that comes last in that rotation  *)
(* (grandchildren of `parent`, under a child that is absent unless         *)
(* k = 32), u siblings of `parent`, and optionally `parent` itself.  With  *)
(* dup the array lists every cell twice.                                   *)
(***************************************************************************)
\* k children of parent, in BASE32 order starting from digit offset.
KChildren(parent, offset, k) ==
  {Append(parent, (offset + c) % 32) : c \in 0 .. (k - 1)}

\* u siblings of cell (other children of its parent); none for a precision-1 cell.
KSiblings(cell, u) ==
  IF Len(cell) < 2 THEN {}
  ELSE KChildren(Parent(cell), cell[Len(cell)] + 1, u)

DedupCells(sh) ==
  KChildren(sh.parent, sh.offset, sh.k)
    \cup KChildren(Append(sh.parent, (sh.offset + 31) % 32), 0, sh.j)
    \cup KSiblings(sh.parent, sh.u)
    \cup (IF sh.withParent THEN {sh.parent} ELSE {})

DedupShapes ==
  {sh \in [parent : {<<5>>, <<5, 7>>}, offset : {0, 7}, k : 0 .. 32, j : {0, 3, 30},
           u : {0, 29, 31}, withParent : BOOLEAN, dup : BOOLEAN] :
     /\ sh.dup => (sh.j = 0 /\ sh.u = 0 /\ ~sh.withParent)
     /\ sh.u > 0 => (Len(sh.parent) = 2 /\ sh.offset = 0 /\ ~sh.withParent)}

InitDedup ==
  /\ CallIdle
  /\ LibIdle
  /\ shape \in DedupShapes
  /\ hashes = (IF shape.dup THEN Sort(DedupCells(shape)) ELSE << >>) \o Sort(DedupCells(shape))
  /\ lossy \in BOOLEAN
  /\ dpc = "input"
  /\ deduped = << >>
  /\ again = << >>

Dedup ==
  /\ dpc = "input"
  /\ deduped' = deduplicateGeohashes(hashes, lossy)
  /\ dpc' = "once"
  /\ UNCHANGED <<shape, hashes, lossy, again>>
  /\ UNCHANGED <<callVars, libVars>>

DedupAgain ==
  /\ dpc = "once"
  /\ again' = deduplicateGeohashes(deduped, lossy)
  /\ dpc' = "twice"
  /\ UNCHANGED <<shape, hashes, lossy, deduped>>
  /\ UNCHANGED <<callVars, libVars>>

\* mergeCompleteSiblings as its callers use it, on a set that holds no cell
\* together with an ancestor of it, for every minSiblings a threshold in
\* [0, 1] maps to and every minPrecision.
MergeSiblings ==
  /\ dpc = "input"
  /\ AncestorFilter(SetOf(hashes)) = SetOf(hashes)
  /\ \E minSiblings \in 24 .. 32, minPrecision \in 1 .. MaxPrec :
       deduped' = Sort(mergeCompleteSiblings(SetOf(hashes), minPrecision, minSiblings))
  /\ dpc' = "merged"
  /\ UNCHANGED <<shape, hashes, lossy, again>>
  /\ UNCHANGED <<callVars, libVars>>

NextDedup == Dedup \/ DedupAgain \/ MergeSiblings

SpecDedup == InitDedup /\ [][NextDedup]_vars

(***************************************************************************)
(* A client calling pointInPolygon on a ring and a point.  The rings are   *)
(* the square and the triangle of the unit tests, the square taken         *)
(* clockwise, and a concave ring; the points lie on, inside and outside.   *)
(* For these coordinates every quotient of the ray test is a multiple of   *)
(* 1/2, so the floating-point comparison is the exact one.                 *)
(***************************************************************************)
PipPolygons ==
  { << <<0, 0>>, <<10, 0>>, <<10, 10>>, <<0, 10>> >>,
    << <<0, 0>>, <<0, 10>>, <<10, 10>>, <<10, 0>> >>,
    << <<0, 0>>, <<10, 0>>, <<5, 10>> >>,
    << <<0, 0>>, <<10, 0>>, <<10, 10>>, <<5, 10>>, <<5, 5>>, <<0, 5>> >> }

PipCoordinates == {-5, 0, 1, 3, 5, 9, 10, 15}

InitPip ==
  /\ CallIdle
  /\ DedupIdle
  /\ OrderIdle
  /\ HullIdle
  /\ NeighbourIdle
  /\ pipPolygon \in PipPolygons
  /\ pipPoint \in PipCoordinates \X PipCoordinates
  /\ pipPc = "input"
  /\ pipInside = FALSE

PointInPolygon ==
  /\ pipPc = "input"
  /\ pipInside' = pointInPolygon(pipPoint, pipPolygon)
  /\ pipPc' = "done"
  /\ UNCHANGED <<pipPolygon, pipPoint>>
  /\ UNCHANGED <<callVars, dedupVars, hullVars, nbVars, orderVars>>

NextPip == PointInPolygon

SpecPip == InitPip /\ [][NextPip]_vars

(***************************************************************************)
(* coverage.ts: geohashesToConvexHull                                      *)
(***************************************************************************)
cross2D(o, a, b) == (a[1] - o[1]) * (b[2] - o[2]) - (a[2] - o[2]) * (b[1] - o[1])

\* The corners of the cells from cells[i] on, appended to points unless seen.
RECURSIVE UniqueCorners(_, _, _)
UniqueCorners(cells, i, points) ==
  IF i > Len(cells) THEN points
  ELSE LET c == Corners(bounds(cells[i]))
           Seen(ps, k) == \E n \in 1 .. Len(ps) : ps[n] = c[k]
           Push(ps, k) == IF Seen(ps, k) THEN ps ELSE Append(ps, c[k])
       IN UniqueCorners(cells, i + 1, Push(Push(Push(Push(points, 1), 2), 3), 4))

\* points.sort((a, b) => a[0] - b[0] || a[1] - b[1]), of distinct points
PointBefore(a, b) == a[1] < b[1] \/ (a[1] = b[1] /\ a[2] <= b[2])

RECURSIVE SortPoints(_)
SortPoints(set) ==
  IF set = {} THEN << >>
  ELSE LET first == CHOOSE p \in set : \A q \in set : PointBefore(p, q)
       IN <<first>> \o SortPoints(set \ {first})

Pop(chain) == SubSeq(chain, 1, Len(chain) - 1)

\* PopWhile with an if in the place of the while: at most one pop.
PopOnce(chain, p) ==
  IF Len(chain) >= 2 /\ cross2D(chain[Len(chain) - 1], chain[Len(chain)], p) <= 0
  THEN Pop(chain)
  ELSE chain

\* while (chain.length >= 2 && cross2D(..., p) <= 0) chain.pop()
RECURSIVE PopWhile(_, _)
PopWhile(chain, p) ==
  IF Len(chain) >= 2 /\ cross2D(chain[Len(chain) - 1], chain[Len(chain)], p) <= 0
  THEN PopWhile(Pop(chain), p)
  ELSE chain

\* One half of the monotone chain over points[i ..].
RECURSIVE HalfHull(_, _, _)
HalfHull(points, i, chain) ==
  IF i > Len(points) THEN chain
  ELSE HalfHull(points, i + 1, Append(PopWhile(chain, points[i]), points[i]))

Reverse(seq) == [i \in 1 .. Len(seq) |-> seq[Len(seq) + 1 - i]]

geohashesToConvexHull(cells) ==
  IF Len(cells) = 0 THEN Returned(<< >>, 0)
  ELSE LET points == UniqueCorners(cells, 1, << >>)
           sorted == SortPoints({points[n] : n \in 1 .. Len(points)})
           lower == HalfHull(sorted, 1, << >>)
           upper == HalfHull(Reverse(sorted), 1, << >>)
       IN IF Len(points) < 3 THEN Returned(points, 0)
          ELSE IF MaxOf(points, 1, 1) - MinOf(points, 1, 1) > World \div 2
          THEN Thrown(ErrorOf("Error", "Geohashes straddle the antimeridian"))
          ELSE Returned(Pop(lower) \o Pop(upper), 0)

(***************************************************************************)
(* A client calling geohashesToConvexHull on an array of one to three      *)
(* cells (repeats included) of precisions 1 to 3.                          *)
(***************************************************************************)
HullCells ==
  { <<24>>, <<24, 3>>, <<24, 3, 17>>, <<27, 20>>, <<25, 9, 30>>, <<7>>, <<0>>, <<31>> }

HullInputs ==
  {<< >>} \cup {<<a>> : a \in HullCells}
    \cup {<<a, b>> : a \in HullCells, b \in HullCells}
    \cup {<<a, b, c>> : a \in HullCells, b \in HullCells, c \in HullCells}

InitHull ==
  /\ CallIdle
  /\ DedupIdle
  /\ OrderIdle
  /\ PipIdle
  /\ NeighbourIdle
  /\ hullHashes \in HullInputs
  /\ hullPc = "input"
  /\ hullOutcome = Pending

ConvexHull ==
  /\ hullPc = "input"
  /\ hullOutcome' = geohashesToConvexHull(hullHashes)
  /\ hullPc' = "done"
  /\ UNCHANGED hullHashes
  /\ UNCHANGED <<callVars, dedupVars, pipVars, nbVars, orderVars>>

NextHull == ConvexHull

SpecHull == InitHull /\ [][NextHull]_vars

(***************************************************************************)
(* A client stepping from a cell to a neighbour and back, as the round-trip *)
(* tests do.  The cells are all of precision 1, and those of precisions 2  *)
(* and 3 under a choice of parents that includes the four corners of the   *)
(* world, both sides of the antimeridian and the equator.                  *)
(***************************************************************************)
NeighbourCells ==
  {<<a>> : a \in 0 .. 31}
    \cup {<<a, b>> : a \in {0, 10, 21, 31, 15, 16, 24, 5}, b \in 0 .. 31}
    \cup {<<a, b, c>> : a \in {0, 10, 21, 31, 24}, b \in {0, 10, 21, 31, 5}, c \in 0 .. 31}

\* INVERSE_PAIRS of the round-trip test
Opposite(direction) ==
  [i \in 1 .. Len(direction) |->
     CASE direction[i] = "n" -> "s"
       [] direction[i] = "s" -> "n"
       [] direction[i] = "e" -> "w"
       [] direction[i] = "w" -> "e"]

InitNeighbour ==
  /\ CallIdle
  /\ DedupIdle
  /\ OrderIdle
  /\ PipIdle
  /\ HullIdle
  /\ nbHash \in NeighbourCells
  /\ nbDirection \in Direction
  /\ nbPc = "input"
  /\ nbMoved = << >>
  /\ nbReturned = << >>

Move ==
  /\ nbPc = "input"
  /\ nbMoved' = neighbour(nbHash, nbDirection)
  /\ nbPc' = "moved"
  /\ UNCHANGED <<nbHash, nbDirection, nbReturned>>
  /\ UNCHANGED <<callVars, dedupVars, pipVars, hullVars, orderVars>>

MoveBack ==
  /\ nbPc = "moved"
  /\ nbReturned' = neighbour(nbMoved, Opposite(nbDirection))
  /\ nbPc' = "returned"
  /\ UNCHANGED <<nbHash, nbDirection, nbMoved>>
  /\ UNCHANGED <<callVars, dedupVars, pipVars, hullVars, orderVars>>

NextNeighbour == Move \/ MoveBack

SpecNeighbour == InitNeighbour /\ [][NextNeighbour]_vars

(***************************************************************************)
(* One pass of computeGeohashes run side by side on the stack of the code  *)
(* and on a first-in, first-out queue, iteration by iteration; a run stops *)
(* when its work list is empty or its bailout test fires.                  *)
(***************************************************************************)
\* Rings without and with a hole; precisions; thresholds; no bailout, and
\* bailouts that fire early and late in a pass.
OrderPolygons ==
  { [outer |-> Rect(33, 33, 35, 35), holes |-> << >>],
    [outer |-> <<Pt(33, 33), Pt(36, 33), Pt(33, 35)>>, holes |-> << >>],
    [outer |-> Rect(31, 31, 36, 36), holes |-> <<Rect(33, 33, 34, 34)>>],
    [outer |-> Rect(31, 33, 41, 35), holes |-> << >>] }

OrderPasses ==
  { PassCtx(poly.outer, poly.holes, pr[1], pr[2], th, bailout) :
      poly \in OrderPolygons,
      pr \in {<<1, 2>>, <<1, MaxPrec>>, <<2, MaxPrec>>},
      th \in Thresholds,
      bailout \in {<< >>, <<2>>, <<8>>} }

InitOrder ==
  /\ CallIdle
  /\ DedupIdle
  /\ PipIdle
  /\ HullIdle
  /\ NeighbourIdle
  /\ ordCtx \in OrderPasses
  /\ ordPc = "start"
  /\ ordLifo = NoRun
  /\ ordFifo = NoRun

Running(run) == ~run.bailed /\ Len(run.queue) > 0

\* A run after one iteration that left next = [queue, result], with its
\* bailout test.
Iterated(run, next) ==
  [run EXCEPT !.queue = next.queue, !.result = next.result,
              !.bailed = OverLimit(next.result, ordCtx.bailout)]

\* What a stopped run returns: null after a bailout, else the sorted merge.
Ended(run) ==
  [run EXCEPT !.returned =
     IF run.bailed THEN [null |-> TRUE, cells |-> << >>]
     ELSE [null |-> FALSE, cells |-> Compacted(run.result, ordCtx)]]

OrderStart ==
  /\ ordPc = "start"
  /\ ordLifo' = [NoRun EXCEPT !.queue = SeedQueue(ordCtx)]
  /\ ordFifo' = [NoRun EXCEPT !.queue = SeedQueue(ordCtx)]
  /\ ordPc' = "run"
  /\ UNCHANGED ordCtx
  /\ UNCHANGED <<callVars, dedupVars, pipVars, hullVars, nbVars>>

OrderStep ==
  /\ ordPc = "run"
  /\ Running(ordLifo) \/ Running(ordFifo)
  /\ ordLifo' = IF Running(ordLifo)
                THEN Iterated(ordLifo, LoopBody(ordLifo.queue, ordLifo.result, ordCtx))
                ELSE ordLifo
  /\ ordFifo' = IF Running(ordFifo)
                THEN Iterated(ordFifo, LoopBodyFifo(ordFifo.queue, ordFifo.result, ordCtx))
                ELSE ordFifo
  /\ UNCHANGED <<ordCtx, ordPc>>
  /\ UNCHANGED <<callVars, dedupVars, pipVars, hullVars, nbVars>>

OrderEnd ==
  /\ ordPc = "run"
  /\ ~Running(ordLifo)
  /\ ~Running(ordFifo)
  /\ ordLifo' = Ended(ordLifo)
  /\ ordFifo' = Ended(ordFifo)
  /\ ordPc' = "done"
  /\ UNCHANGED ordCtx
  /\ UNCHANGED <<callVars, dedupVars, pipVars, hullVars, nbVars>>

NextOrder == OrderStart \/ OrderStep \/ OrderEnd

SpecOrder == InitOrder /\ [][NextOrder]_vars

(***************************************************************************)
(* Properties of polygonToGeohashes, checked under Spec.                   *)
(***************************************************************************)
IsReturn == pc = "done" /\ outcome.kind = "return"

\* C1: whenever polygonToGeohashes returns, for a ring, a Polygon or a
\* MultiPolygon, the returned array has at most options.maxCells elements; for a
\* MultiPolygon this is the merged result of all parts.
BudgetInvariant ==
  IsReturn => Len(outcome.value) * options.maxCells[2] <= options.maxCells[1]

\* A MultiPolygon call returns cells after an attempt whose parts all completed
\* but whose merged result was over the budget.
BudgetWitness ==
  /\ IsReturn
  /\ IsMulti
  /\ Len(outcome.value) > 0
  /\ \E i \in 1 .. Len(attempts) : ~attempts[i].bailed /\ attempts[i].size > Floor(options.maxCells)

\* C2: for a ring or a Polygon and any mergeThreshold, the returned array has no
\* two equal entries and no entry that is a strict prefix of another entry.
SinglePrefixFree ==
  (IsReturn /\ ~IsMulti) => (DuplicateFree(outcome.value) /\ AncestorFree(outcome.value))

\* C9: for a MultiPolygon, the returned array has no two equal entries and no
\* entry that is a strict prefix of another entry.
MultiPrefixFree ==
  (IsReturn /\ IsMulti) => (DuplicateFree(outcome.value) /\ AncestorFree(outcome.value))

\* The cells of all parts at the returning attempt, before deduplication.
CellsOfParts == allHashes \o Compacted(result, CurrentCtx)

\* A MultiPolygon call returns although the cells of its parts, taken together,
\* held a duplicate and an ancestor pair.
MultiPrefixFreeWitness ==
  /\ IsReturn
  /\ IsMulti
  /\ passes > 0
  /\ ~DuplicateFree(CellsOfParts)
  /\ ~AncestorFree(CellsOfParts)
  /\ Len(outcome.value) > 1

\* A MultiPolygon child whose outer ring has fewer than 3 vertices or an edge
\* spanning more than 180 degrees of longitude.
InvalidPart(polyCoords) ==
  /\ Len(polyCoords) > 0
  /\ LET outer == stripClosingVertex(polyCoords[1])
     IN Len(outer) < 3 \/ CrossesAntimeridian(outer)

HasInvalidPart ==
  IsMulti /\ \E i \in 1 .. Len(input.coordinates) : InvalidPart(input.coordinates[i])

\* C10: for a MultiPolygon with an invalid part at any position, no
\* computeGeohashes pass is ever started and the call ends by throwing.
InvalidPartThrowsFirst ==
  HasInvalidPart =>
    /\ passes = 0
    /\ pc \in {"call", "done"}
    /\ pc = "done" => outcome.kind = "throw"

\* The call has thrown for a MultiPolygon whose first part is valid and whose
\* second part is not, with options that are accepted.
InvalidPartWitness ==
  /\ pc = "done"
  /\ HasInvalidPart
  /\ ~InvalidPart(input.coordinates[1])
  /\ outcome.kind = "throw"
  /\ outcome.error.name = "Error"
  /\ passes = 0

(***************************************************************************)
(* Properties of two calls on the same input, checked under SpecSession.   *)
(***************************************************************************)
SecondCallDone(variant) == pc = "done" /\ prev.called /\ prev.variant = variant

\* C3: the count N of the fallback's RangeError is greater than maxCells, and
\* the same call with maxCells = N returns.
SizingErrorCountFeasible ==
  /\ (pc = "done" /\ IsSizingError(outcome)) =>
       outcome.error.count * options.maxCells[2] > options.maxCells[1]
  /\ SecondCallDone("count") => outcome.kind = "return"

\* After a RangeError reporting N cells, the call with maxCells = N has returned
\* exactly N cells.
SizingErrorWitness ==
  /\ SecondCallDone("count")
  /\ outcome.kind = "return"
  /\ <<prev.outcome.error.count, 1>> = options.maxCells
  /\ prev.outcome.error.count > Floor(prev.options.maxCells)
  /\ Len(outcome.value) = prev.outcome.error.count

AttemptInOrder(i) ==
  LET steps == opts.maxPrecision - opts.minPrecision + 1
  IN /\ attempts[i].fallback = (i > steps)
     /\ attempts[i].mp = (IF i > steps THEN opts.minPrecision ELSE opts.maxPrecision - (i - 1))

ThresholdMonotone ==
  (SecondCallDone("threshold") /\ outcome.kind = "return")
    => Len(prev.outcome.value) <= Len(outcome.value)

\* C5 amended: whenever both calls return the result of the same step (the same
\* mp, or both the fallback), mergeThreshold 0 returns no more cells.
ThresholdMonotoneAtSameStep ==
  (SecondCallDone("threshold") /\ outcome.kind = "return"
     /\ outcome.step = prev.outcome.step /\ passes > 0)
    => Len(prev.outcome.value) <= Len(outcome.value)

\* Both calls return at the same step above minPrecision, and mergeThreshold 0
\* returned fewer cells.
ThresholdWitness ==
  /\ SecondCallDone("threshold")
  /\ outcome.kind = "return"
  /\ outcome.step = prev.outcome.step
  /\ outcome.step > opts.minPrecision
  /\ Len(prev.outcome.value) < Len(outcome.value)

(***************************************************************************)
(* Properties of deduplicateGeohashes, checked under SpecDedup.            *)
(***************************************************************************)
\* C6: in exact and in lossy mode, deduplicateGeohashes applied to its own
\* output returns that output.
DedupIdempotent == dpc = "twice" => again = deduped

\* C7: in exact and in lossy mode, the output of deduplicateGeohashes has no
\* cell whose strict prefix is also in the output.
DedupAncestorFree == dpc \in {"once", "twice"} => AncestorFree(deduped)

\* The input is k >= 1 distinct children of shape.parent and nothing else.
OnlyChildren ==
  /\ shape.k >= 1
  /\ shape.j = 0
  /\ shape.u = 0
  /\ ~shape.withParent
  /\ ~shape.dup

\* C8: for k distinct children of one parent and nothing else, the output is
\* [parent] if k = 32 (exact mode) or k >= 30 (lossy mode), and otherwise the k
\* children unchanged.
SiblingMergeThreshold ==
  (dpc = "once" /\ OnlyChildren) =>
    /\ Len(hashes) = shape.k
    /\ deduped = (IF (lossy /\ shape.k >= 30) \/ (~lossy /\ shape.k = 32)
                  THEN <<shape.parent>>
                  ELSE hashes)

\* 30 of the 32 children of a parent have been merged into it in lossy mode.
SiblingMergeWitness ==
  /\ dpc = "once"
  /\ OnlyChildren
  /\ lossy
  /\ shape.k = 30
  /\ Len(hashes) = 30
  /\ deduped = <<shape.parent>>

(***************************************************************************)
(* Properties of the guards of polygonToGeohashes, checked under Spec.     *)
(***************************************************************************)
\* The outer rings supplied with the input, as supplied.
SuppliedOuterRings ==
  IF input.type = "Ring" THEN {input.coordinates}
  ELSE IF input.type = "Polygon"
  THEN {input.coordinates[i] : i \in {1} \cap DOMAIN input.coordinates}
  ELSE {input.coordinates[i][1] :
          i \in {k \in DOMAIN input.coordinates : Len(input.coordinates[k]) > 0}}

\* All rings supplied with the input, outer rings and holes.
SuppliedRings ==
  IF input.type = "Ring" THEN {input.coordinates}
  ELSE IF input.type = "Polygon"
  THEN {input.coordinates[i] : i \in DOMAIN input.coordinates}
  ELSE UNION {{input.coordinates[i][k] : k \in DOMAIN input.coordinates[i]} :
                i \in DOMAIN input.coordinates}

\* The ring without a last vertex that repeats the first.
WithoutClosingVertex(ring) ==
  IF Len(ring) > 1 /\ ring[Len(ring)] = ring[1] THEN SubSeq(ring, 1, Len(ring) - 1) ELSE ring

\* C11: an input whose outer ring has fewer than 3 vertices once a duplicated
\* closing vertex is removed is rejected with an error, whether the ring is a
\* bare coordinate array, a Polygon's outer ring or a MultiPolygon part's.
DegenerateRejected ==
  (pc = "done" /\ \E ring \in SuppliedOuterRings : Len(WithoutClosingVertex(ring)) < 3)
    => outcome.kind = "throw"

\* C12: the outer ring handed to computeGeohashes never has its last vertex
\* equal to its first, for bare coordinate arrays as for Polygon and
\* MultiPolygon rings.
ClosingVertexStripped ==
  pc = "compute" =>
    LET outer == CurrentCtx.polygon IN outer[Len(outer)] # outer[1]

\* C13: the antimeridian error is thrown if and only if some supplied ring,
\* outer ring or hole, has an edge (the closing edge included) spanning more
\* than 180 degrees of longitude.  The guards that come first (options, outer
\* ring present, 3 vertices) are left to throw their own errors.
AntimeridianMessage == "Polygons crossing the antimeridian are not supported"

AntimeridianIff ==
  pc = "done" =>
    /\ (outcome.kind = "throw" /\ outcome.error.message = AntimeridianMessage)
         => \E ring \in SuppliedRings : CrossesAntimeridian(ring)
    /\ (\E ring \in SuppliedRings : CrossesAntimeridian(ring))
         => outcome.kind = "throw"

\* Some vertex of some supplied ring has latitude outside [-90, 90] or
\* longitude outside [-180, 180].
OutOfRange(ring) ==
  \E i \in DOMAIN ring :
    \/ ring[i][1] < 0 \/ ring[i][1] > World
    \/ ring[i][2] < 0 \/ ring[i][2] > World

\* C14: whenever a vertex of any ring of the input is out of range, the call
\* throws a RangeError and returns nothing.
OutOfRangeRejected ==
  (pc = "done" /\ \E ring \in SuppliedRings : OutOfRange(ring))
    => (outcome.kind = "throw" /\ outcome.error.name = "RangeError")

\* The options of the call are all finite and maxCells is at least 1.
OptionsAccepted ==
  /\ \A f \in {"minPrecision", "maxPrecision", "maxCells", "mergeThreshold"} :
       IsFinite(options[f])
  /\ options.maxCells[1] >= options.maxCells[2]

\* v is x rounded to an integer and clamped to lo..hi: lo for x <= lo, hi for
\* x >= hi, and otherwise within 1/2 of x.
RoundedAndClamped(v, x, lo, hi) ==
  IF x[1] <= lo * x[2] THEN v = lo
  ELSE IF x[1] >= hi * x[2] THEN v = hi
  ELSE 2 * Abs(v * x[2] - x[1]) <= x[2]

\* C15: for finite options the effective values satisfy
\* 1 <= minPrecision <= maxPrecision <= 9 and 0 <= threshold <= 1, are the
\* options rounded and then clamped (maxPrecision raised to minPrecision when
\* smaller), and every pass runs at minPrecision <= mp <= maxPrecision; a
\* non-finite option or maxCells < 1 raises RangeError before any pass.
EffectiveOptions ==
  /\ (pc # "call" /\ OptionsAccepted) =>
       /\ 1 <= opts.minPrecision
       /\ opts.minPrecision <= opts.maxPrecision
       /\ opts.maxPrecision <= 9
       /\ 0 <= opts.threshold[1] /\ opts.threshold[1] <= opts.threshold[2]
       /\ RoundedAndClamped(opts.minPrecision, options.minPrecision, 1, 9)
       /\ RoundedAndClamped(opts.maxPrecision, options.maxPrecision, opts.minPrecision, 9)
       /\ LET t == options.mergeThreshold
          IN opts.threshold = (IF t[1] < 0 THEN <<0, 1>>
                               ELSE IF t[1] > t[2] THEN <<1, 1>> ELSE t)
  /\ pc = "compute" =>
       /\ CurrentCtx.minPrecision = opts.minPrecision
       /\ opts.minPrecision <= CurrentCtx.maxPrecision
       /\ CurrentCtx.maxPrecision <= opts.maxPrecision
  /\ ~OptionsAccepted =>
       /\ passes = 0
       /\ pc \in {"call", "done"}
       /\ pc = "done" => (outcome.kind = "throw" /\ outcome.error.name = "RangeError")

\* A pass runs for options minPrecision 1.5 and maxPrecision 0: both effective
\* precisions are 2.
EffectiveOptionsWitness ==
  /\ pc = "compute"
  /\ options.minPrecision = <<3, 2>>
  /\ options.maxPrecision = <<0, 1>>
  /\ opts.minPrecision = 2
  /\ opts.maxPrecision = 2
  /\ CurrentCtx.maxPrecision = 2

(***************************************************************************)
(* Plane geometry used in stating the properties.                          *)
(***************************************************************************)
\* p lies on the edge from a to b.
OnEdge(a, b, p) == cross(a, b, p) = 0 /\ onSegment(a, b, p)

OnRingEdge(p, ring) ==
  \E i \in 1 .. Len(ring) : OnEdge(ring[Prev(i, Len(ring))], ring[i], p)

\* On the grid every cell has even width and height, so the centre is a
\* grid point.
Centre(b) == <<(b.minLon + b.maxLon) \div 2, (b.minLat + b.maxLat) \div 2>>

InsideOrOn(p, ring) == OnRingEdge(p, ring) \/ pointInPolygon(p, ring)

\* A pass of the single-polygon path has ended: the last attempt of the
\* step-down loop (mp = minPrecision), or the fallback pass.
LastAttemptEnds ==
  /\ pc = "compute" /\ ~IsMulti /\ ~fallback /\ mp = opts.minPrecision
  /\ bailed \/ Len(queue) = 0

FallbackEnds == pc = "compute" /\ ~IsMulti /\ fallback /\ Len(queue) = 0

\* What the attempt at mp = minPrecision returns when it is run without a
\* bailout limit, with the mergeThreshold of the call.
LastAttemptUnlimited ==
  computeGeohashes(parts[1].outer, parts[1].holes, opts.minPrecision, opts.minPrecision,
                   opts.threshold, << >>).cells

\* C30: for a single polygon the fallback pass yields the cells that the last
\* attempt of the step-down loop (mp = minPrecision) yields when run without
\* bailout, whatever mergeThreshold is; so a call whose step-down loop is
\* exhausted throws the RangeError: the fallback pass never produces the
\* returned result.
FallbackNeverReturns ==
  /\ LastAttemptEnds =>
        IF bailed
        THEN /\ SetOf(result) \subseteq SetOf(LastAttemptUnlimited)
             /\ Len(LastAttemptUnlimited) > opts.maxCells
        ELSE Compacted(result, CurrentCtx) = LastAttemptUnlimited
  /\ FallbackEnds => Compacted(result, CurrentCtx) = LastAttemptUnlimited
  /\ (pc = "done" /\ ~IsMulti /\ fallback) =>
        /\ outcome.kind = "throw"
        /\ outcome.error.name = "RangeError"
        /\ outcome.error.message = "Polygon requires at least"
        /\ outcome.error.count > opts.maxCells
  /\ (pc = "done" /\ ~IsMulti /\ outcome.kind = "return" /\ passes > 0) =>
        /\ ~fallback
        /\ outcome.step >= opts.minPrecision

\* A call has thrown after its fallback pass, the last attempt of the
\* step-down loop having been stopped by the bailout, at a mergeThreshold
\* other than that of the fallback pass.
FallbackNeverReturnsWitness ==
  /\ pc = "done"
  /\ ~IsMulti
  /\ fallback
  /\ outcome.kind = "throw"
  /\ opts.threshold # <<0, 1>>
  /\ \E i \in 1 .. Len(attempts) :
       ~attempts[i].fallback /\ attempts[i].mp = opts.minPrecision /\ attempts[i].bailed

(***************************************************************************)
(* Properties of the order of the work list, checked under SpecOrder.      *)
(***************************************************************************)
\* C27: the outcome of a pass does not depend on the order in which cells are
\* taken from the work list: served first in first out or last in first out,
\* the pass bails out in both or in neither, commits the same set of cells,
\* and returns the same value.
OrderIndependent ==
  ordPc = "done" =>
    /\ ordLifo.bailed = ordFifo.bailed
    /\ ~ordLifo.bailed => SetOf(ordLifo.result) = SetOf(ordFifo.result)
    /\ ordLifo.returned = ordFifo.returned

\* Both runs have returned cells of more than one length, having committed them
\* in different orders.
OrderIndependentWitness ==
  /\ ordPc = "done"
  /\ ~ordLifo.returned.null
  /\ ordLifo.result # ordFifo.result
  /\ \E i, j \in 1 .. Len(ordLifo.returned.cells) :
       Len(ordLifo.returned.cells[i]) # Len(ordLifo.returned.cells[j])

(***************************************************************************)
(* Properties of the passes of computeGeohashes, checked under Spec.      *)
(***************************************************************************)
\* C19: in every pass each committed (pre-compaction) cell has length at
\* least ceil(minPrecision + (maxPrecision - minPrecision) * coverageThreshold)
\* and at most the pass's maxPrecision; at coverageThreshold 1 its length is
\* exactly maxPrecision.
CommittedLengths ==
  pc = "compute" =>
    LET ctx == CurrentCtx
        t == ctx.coverageThreshold
    IN \A i \in 1 .. Len(result) :
         /\ Len(result[i]) <= ctx.maxPrecision
         /\ Len(result[i]) * t[2] >=
              ctx.minPrecision * t[2] + (ctx.maxPrecision - ctx.minPrecision) * t[1]
         /\ t[1] = t[2] => Len(result[i]) = ctx.maxPrecision

\* A pass at threshold 1/2 from precision 1 to MaxPrec that has committed an
\* interior cell coarser than maxPrecision and a cell at maxPrecision.
CommittedLengthsWitness ==
  /\ pc = "compute"
  /\ CurrentCtx.coverageThreshold = <<1, 2>>
  /\ CurrentCtx.minPrecision = 1
  /\ CurrentCtx.maxPrecision = MaxPrec
  /\ \E i \in 1 .. Len(result) : Len(result[i]) < MaxPrec
  /\ \E i \in 1 .. Len(result) : Len(result[i]) = MaxPrec

\* C20: every cell shorter than the pass's maxPrecision in the list
\* computeGeohashes returns (after the sibling merge) is fully inside the
\* effective polygon: fully inside the outer ring and overlapping no hole.
CoarseCellsFullyInside ==
  (pc = "compute" /\ ~bailed /\ Len(queue) = 0) =>
    LET ctx == CurrentCtx
        cells == Compacted(result, ctx)
    IN \A i \in 1 .. Len(cells) :
         Len(cells[i]) < ctx.maxPrecision =>
           isFullyInside(bounds(cells[i]), ctx.polygon, ctx.holes)

\* A pass of the step-down loop: the bailout limit is 4 * maxCells.
InLimitedPass == pc = "compute" /\ ~fallback

\* The committed cells number more than 4 * maxCells.
OverBailout == Len(result) * options.maxCells[2] > 4 * options.maxCells[1]

\* C21: in a pass with bailout limit L = 4 * maxCells the committed set never
\* holds more than L + 32 cells; the pass aborts right after the first
\* processed cell that leaves more than L cells committed; the abort is not an
\* empty result (the call steps down or goes to the fallback, it does not
\* return) and nothing committed by the pass is kept.
BailoutDiscards ==
  /\ [](InLimitedPass =>
          /\ Len(result) * options.maxCells[2] <= (4 * options.maxCells[1]) + 32 * options.maxCells[2]
          /\ bailed <=> OverBailout)
  /\ [][(InLimitedPass /\ bailed) =>
          /\ pc' = "attempt"
          /\ outcome' = outcome
          /\ allHashes' = << >>
          /\ part' = 1
          /\ attempts' = Append(attempts, [mp |-> mp, fallback |-> FALSE, bailed |-> TRUE,
                                            size |-> 0])
          /\ IF mp > opts.minPrecision
             THEN mp' = mp - 1 /\ ~fallback'
             ELSE fallback']_vars

\* The second part of a MultiPolygon has bailed out with the cells of the
\* first part collected.
BailoutDiscardsWitness ==
  /\ InLimitedPass
  /\ bailed
  /\ OverBailout
  /\ part = 2
  /\ allHashes # << >>

\* The loop of a pass is about to process the cell on top of the stack.
Processing == pc = "compute" /\ ~bailed /\ Len(queue) > 0

\* The length of the cell being processed, and the entries pending under it.
CurrentDepth == Len(queue[Len(queue)])
PendingEntries == Len(queue) - 1

\* C22 as stated: at every point of a pass the number of pending entries on
\* the work stack is at most 32 * (maxPrecision - d), d the length of the
\* cell being processed.
StackWithinRemainingDepth ==
  Processing => PendingEntries <= 32 * (CurrentCtx.maxPrecision - CurrentDepth)

\* C22 amended: while a cell of length d is processed at most 31 * d entries
\* are pending under it (at most 31 of each length up to d, none longer), and
\* after its children are pushed the stack holds at most 31 * d + 32 entries.
StackWithinDepth ==
  /\ [](Processing =>
          /\ PendingEntries <= 31 * CurrentDepth
          /\ \A i \in 1 .. Len(queue) : Len(queue[i]) <= CurrentDepth)
  /\ [][Processing => Len(queue') <= 31 * CurrentDepth + 32]_vars

\* A cell of length maxPrecision = 3 is processed with more than 32 entries
\* pending: siblings of its own and of its parent.
StackWithinDepthWitness ==
  /\ Processing
  /\ CurrentCtx.maxPrecision = 3
  /\ CurrentDepth = 3
  /\ PendingEntries > 32
  /\ \E i \in 1 .. Len(queue) : Len(queue[i]) = 2

\* The loop of a pass has ended without bailout: computeGeohashes returns
\* Compacted(result, CurrentCtx).
PassReturns == pc = "compute" /\ ~bailed /\ Len(queue) = 0

\* cell is c or a descendant of c.
IsUnder(cell, c) == cell = c \/ IsStrictPrefix(c, cell)

\* C23: at coverageThreshold = 1 the sibling merge uses minSiblings = 32 and
\* is lossless: the maxPrecision-level cells covered by the compacted result
\* of a pass are those covered by its raw committed set.  (At threshold 1 the
\* raw cells are themselves of length maxPrecision.)
LosslessMerge ==
  (PassReturns /\ CurrentCtx.coverageThreshold = <<1, 1>>) =>
    LET ctx == CurrentCtx
        raw == SetOf(result)
        compacted == SetOf(Compacted(result, ctx))
    IN /\ minSiblingsOf(ctx.coverageThreshold) = 32
       /\ \A cell \in raw : \E c \in compacted : IsUnder(cell, c)
       /\ \A c \in compacted :
            /\ Len(c) <= ctx.maxPrecision
            /\ Cardinality({cell \in raw : Len(cell) = ctx.maxPrecision /\ IsUnder(cell, c)})
                 = 32 ^ (ctx.maxPrecision - Len(c))

\* A pass at threshold 1 whose merge has replaced 32 committed siblings by
\* their parent and left other cells at maxPrecision.
LosslessMergeWitness ==
  /\ PassReturns
  /\ CurrentCtx.coverageThreshold = <<1, 1>>
  /\ LET compacted == SetOf(Compacted(result, CurrentCtx))
     IN /\ \E c \in compacted : Len(c) < CurrentCtx.maxPrecision
        /\ \E c \in compacted : Len(c) = CurrentCtx.maxPrecision
        /\ Cardinality(compacted) < Len(result)

\* C24: every committed cell that overlaps a hole has length exactly
\* maxPrecision and is not fully inside that hole; a cell committed below
\* maxPrecision overlaps no hole (nor is its centre in or on one).
HolesRespected ==
  pc = "compute" =>
    LET ctx == CurrentCtx IN
    \A i \in 1 .. Len(result) : \A k \in 1 .. Len(ctx.holes) :
      LET b == bounds(result[i])
          hole == ctx.holes[k]
      IN /\ boundsOverlapsPolygon(b, hole) =>
              /\ Len(result[i]) = ctx.maxPrecision
              /\ ~boundsFullyInsidePolygon(b, hole)
         /\ Len(result[i]) < ctx.maxPrecision =>
              /\ ~boundsOverlapsPolygon(b, hole)
              /\ ~InsideOrOn(Centre(b), hole)

\* A finished pass over a polygon with a hole has committed a cell below
\* maxPrecision, and a cell at maxPrecision that overlaps the hole and has a
\* sibling fully inside the hole, which is not committed.
HolesRespectedWitness ==
  /\ PassReturns
  /\ Len(CurrentCtx.holes) > 0
  /\ \E i \in 1 .. Len(result) : Len(result[i]) < CurrentCtx.maxPrecision
  /\ \E i \in 1 .. Len(result) : \E c \in 0 .. 31 :
       LET hole == CurrentCtx.holes[1]
           sibling == Append(Parent(result[i]), c)
       IN /\ Len(result[i]) = CurrentCtx.maxPrecision
          /\ boundsOverlapsPolygon(bounds(result[i]), hole)
          /\ boundsFullyInsidePolygon(bounds(sibling), hole)
          /\ sibling \notin SetOf(result)

\* The work a stack entry can still cause: a cell r levels above maxPrecision
\* counts for itself and for 32 children, each a level deeper.
RECURSIVE Weight(_)
Weight(r) == IF r <= 0 THEN 1 ELSE 1 + 32 * Weight(r - 1)

RECURSIVE StackWeight(_, _, _)
StackWeight(stack, maxPrecision, i) ==
  IF i > Len(stack) THEN 0
  ELSE Weight(maxPrecision - Len(stack[i])) + StackWeight(stack, maxPrecision, i + 1)

\* C25: every call terminates, bailout or not: an iteration of a pass takes
\* one cell off the stack and pushes only cells one longer than it and no
\* longer than maxPrecision (so the weight of the stack decreases), a call
\* starts at most (maxPrecision - minPrecision + 2) passes per polygon part,
\* and the call returns or throws.
CallTerminates ==
  /\ [](pc = "compute" =>
          \A i \in 1 .. Len(queue) : Len(queue[i]) <= CurrentCtx.maxPrecision)
  /\ [][Processing =>
          /\ \A i \in Len(queue) .. Len(queue') : Len(queue'[i]) = CurrentDepth + 1
          /\ SubSeq(queue', 1, Len(queue) - 1) = SubSeq(queue, 1, Len(queue) - 1)
          /\ StackWeight(queue', CurrentCtx.maxPrecision, 1)
               < StackWeight(queue, CurrentCtx.maxPrecision, 1)]_vars
  /\ [](pc # "call" =>
          passes <= (opts.maxPrecision - opts.minPrecision + 2) * Max(1, Len(parts)))
  /\ <>(pc = "done")

\* A call with maxPrecision above minPrecision has thrown after the fallback
\* pass, having run every pass the bound allows.
CallTerminatesWitness ==
  /\ pc = "done"
  /\ outcome.kind = "throw"
  /\ opts.maxPrecision > opts.minPrecision
  /\ passes = (opts.maxPrecision - opts.minPrecision + 2) * Max(1, Len(parts))

\* C26: every cell of a returned result is at least the effective minPrecision
\* and at most the effective maxPrecision long, whatever the kind of input.
ReturnedWithinPrecisions ==
  (pc = "done" /\ outcome.kind = "return") =>
    \A i \in 1 .. Len(outcome.value) :
      /\ Len(outcome.value[i]) >= opts.minPrecision
      /\ Len(outcome.value[i]) <= opts.maxPrecision

(***************************************************************************)
(* Properties of the two kinds of input, checked under SpecTwin.           *)
(***************************************************************************)
\* Two calls ended the same way: both returned the same array, or both threw
\* an error of the same name reporting the same count.
SameOutcome(a, b) ==
  /\ a.kind = b.kind
  /\ a.value = b.value
  /\ a.error.name = b.error.name
  /\ a.error.count = b.error.count

\* C29: a MultiPolygon with exactly one part returns the same result, or
\* fails the same way, as the Polygon with the coordinates of that part and
\* the same options.
OnePartSameAsPolygon ==
  (pc = "done" /\ prev.called /\ prev.variant = "polygon") =>
    SameOutcome(prev.outcome, outcome)

(***************************************************************************)
(* Properties of the compaction, checked under SpecDedup.                  *)
(***************************************************************************)
\* C28: compaction never loses coverage: every cell of the input of
\* deduplicateGeohashes (exact or lossy) and of mergeCompleteSiblings (for
\* every minSiblings from 24 to 32) is equal to, or a descendant of, some
\* cell of the output.
CoverageKept ==
  dpc \in {"once", "merged"} =>
    \A i \in 1 .. Len(hashes) : \E j \in 1 .. Len(deduped) : IsUnder(hashes[i], deduped[j])

\* A merge on fewer than 30 siblings: the output holds a cell that has come
\* in the place of 24 to 29 of its children, and cells of the input besides.
CoverageKeptWitness ==
  /\ dpc = "merged"
  /\ \E j \in 1 .. Len(deduped) :
       /\ deduped[j] \notin SetOf(hashes)
       /\ Cardinality({h \in SetOf(hashes) : Len(h) = Len(deduped[j]) + 1
                                              /\ IsStrictPrefix(deduped[j], h)}) \in 24 .. 29
  /\ \E j \in 1 .. Len(deduped) : deduped[j] \in SetOf(hashes)

(***************************************************************************)
(* Properties of pointInPolygon, checked under SpecPip.                    *)
(***************************************************************************)
\* C16: for every ring and every point exactly on an edge of the ring,
\* whichever edge it is, pointInPolygon returns true.
PointOnEdgeInside ==
  (pipPc = "done" /\ OnRingEdge(pipPoint, pipPolygon)) => pipInside

(***************************************************************************)
(* Properties of geohashesToConvexHull, checked under SpecHull.            *)
(***************************************************************************)
CornerLonSpan(cells) ==
  LET lons == UNION {{bounds(cells[i]).minLon, bounds(cells[i]).maxLon} : i \in 1 .. Len(cells)}
  IN (CHOOSE hi \in lons : \A x \in lons : x <= hi) - (CHOOSE lo \in lons : \A x \in lons : lo <= x)

\* C17: for every non-empty cell set whose corner longitudes span at most
\* 180 degrees, geohashesToConvexHull returns a polygon, and the centre of
\* every input cell lies inside or on the boundary of that polygon.
HullContainsCentres ==
  (hullPc = "done" /\ hullHashes # << >> /\ 2 * CornerLonSpan(hullHashes) <= World) =>
    /\ hullOutcome.kind = "return"
    /\ \A i \in 1 .. Len(hullHashes) :
         InsideOrOn(Centre(bounds(hullHashes[i])), hullOutcome.value)

\* A hull of three cells of three different sizes with at least six vertices.
HullContainsCentresWitness ==
  /\ hullPc = "done"
  /\ hullOutcome.kind = "return"
  /\ Len(hullHashes) = 3
  /\ {Len(hullHashes[i]) : i \in 1 .. 3} = {1, 2, 3}
  /\ Len(hullOutcome.value) >= 6
  /\ 2 * CornerLonSpan(hullHashes) <= World

(***************************************************************************)
(* Properties of neighbour, checked under SpecNeighbour.                   *)
(***************************************************************************)
InPolarRow(hash) == bounds(hash).maxLat = World \/ bounds(hash).minLat = 0

\* C18: for every cell h not in the northernmost or southernmost row at its
\* precision and every direction d of the eight,
\* neighbour(neighbour(h, d), opposite(d)) = h, also when the step crosses
\* the antimeridian.
NeighbourRoundTrip ==
  (nbPc = "returned" /\ ~InPolarRow(nbHash)) => nbReturned = nbHash

\* A precision-3 cell on the eastern edge of the world steps north-east
\* across the antimeridian into the northernmost row and comes back.
NeighbourRoundTripWitness ==
  /\ nbPc = "returned"
  /\ Len(nbHash) = 3
  /\ ~InPolarRow(nbHash)
  /\ bounds(nbHash).maxLon = World
  /\ nbDirection = <<"n", "e">>
  /\ bounds(nbMoved).minLon = 0
  /\ bounds(nbMoved).minLat = bounds(nbHash).maxLat
  /\ bounds(nbMoved).maxLat = World
  /\ nbReturned = nbHash

====
